---- MODULE Spec2Model ----
(***************************************************************************)
(* A model of the CFG configuration library (tokenizer and parser of path  *)
(* strings, the Config evaluator, its cache and its reference tracking).   *)
(*                                                                         *)
(* Strings are sequences of one-character strings, so that tokenizing and  *)
(* parsing are computed and not assumed.  Numbers are kept in tenths       *)
(* (x10), so that 1.5 is a number that is not an integer.                  *)
(***************************************************************************)
EXTENDS Integers, Sequences, FiniteSets, TLC

\* ------------------------------------------------------------------------
\* Bounds of the model
\* ------------------------------------------------------------------------
MaxGets == 3     \* calls of get made on one Config
MaxDepth == 6    \* nested getFromPath calls the stack has room for
MaxSize == 3     \* elements of a list that is indexed or sliced
MaxIdx == 4      \* magnitude of an index or of a part of a slice
MaxRounds == 4   \* turns of one interpolation loop that are followed
MaxNum == 7      \* magnitude of an operand of an integer division

\* ------------------------------------------------------------------------
\* Token kinds
\* ------------------------------------------------------------------------
EOF == ""
WORD == "a"
INTEGER == "0"
COMPLEX == "j"
FLOAT == "1"
STRING_ == "\""
LCURLY == "{"
LBRACK == "["
RBRACK == "]"
DOT == "."
COLON == ":"
MINUS == "-"
PLUS == "+"
BITOR == "|"
DOLLAR == "$"
NONE == "null"
TRUE_ == "true"
FALSE_ == "false"
SLASHSLASH == "//"
TILDE == "~"
NOT == "not"
AND == "and"
OR == "or"
\* the kind of a backtick-string token (its one character, a grave accent)
BACKTICK == "backtick"
AT == "@"
NEWLINE == "\n"
RCURLY == "}"
ASSIGN == "="
EQ == "=="
COMMA == ","
STAR == "*"
SLASH == "/"
MODULO == "%"
POWER == "**"
LSHIFT == "<<"
RSHIFT == ">>"
BITAND == "&"
BITXOR == "^"
LPAREN == "("
RPAREN == ")"
LT == "<"
GT == ">"
LE == "<="
GE == ">="
NEQ == "!="
ALT_NEQ == "<>"
IS == "is"
IN_ == "in"
ISNOT == "is not"
NOTIN == "not in"

\* stream.read(1) returns null at the end of the stream
NoChar == "<null>"

\* the letters are those the documents and the paths of the model are made of
is_letter(c) ==
  c \in {"a", "b", "c", "d", "e", "f", "g", "i", "j", "l", "m", "n", "o", "p", "q", "r",
         "s", "t", "x", "z"}
is_digit(c) == c \in {"0", "1", "2", "3", "4", "5", "6", "7", "8", "9"}
is_letter_or_digit(c) == is_letter(c) \/ is_digit(c)
\* the texts of the model have their letters in lower case
is_hex_digit(c) == is_digit(c) \/ c \in {"a", "b", "c", "d", "e", "f"}
is_whitespace(c) == c = " "

PUNCTUATION ==
  [c \in {":", "-", "+", "*", "/", "%", ",", "{", "}", "[", "]", "(", ")", "@", "$", "<", ">",
          "~", "&", "|", "^", "."} |-> c] @@ [c \in {"!"} |-> NOT]

\* of KEYWORDS, the words the letters of the model spell
KEYWORDS ==
  [text \in {<<"f", "a", "l", "s", "e">>, <<"i", "s">>, <<"i", "n">>, <<"n", "o", "t">>,
             <<"a", "n", "d">>, <<"o", "r">>} |->
     CASE text = <<"f", "a", "l", "s", "e">> -> FALSE_
       [] text = <<"i", "s">> -> IS
       [] text = <<"i", "n">> -> IN_
       [] text = <<"n", "o", "t">> -> NOT
       [] text = <<"a", "n", "d">> -> AND
       [] OTHER -> OR]

DigitVal(c) ==
  CASE c = "0" -> 0 [] c = "1" -> 1 [] c = "2" -> 2 [] c = "3" -> 3
    [] c = "4" -> 4 [] c = "5" -> 5 [] c = "6" -> 6 [] c = "7" -> 7
    [] c = "8" -> 8 [] c = "9" -> 9 [] c = "a" -> 10 [] c = "b" -> 11
    [] c = "c" -> 12 [] c = "d" -> 13 [] c = "e" -> 14 [] c = "f" -> 15

\* ------------------------------------------------------------------------
\* Runtime values
\* ------------------------------------------------------------------------
Str(s) == [t |-> "string", s |-> s]
Num(x10) == [t |-> "number", x10 |-> x10]
IntV(n) == Num(10 * n)
Null == [t |-> "null"]
Undefined == [t |-> "undefined"]
Bool(b) == [t |-> "boolean", b |-> b]

IsNum(v) == v.t = "number"
IsStr(v) == v.t = "string"
\* Number.isInteger
IsInteger(v) == IsNum(v) /\ v.x10 % 10 = 0

\* ------------------------------------------------------------------------
\* Tokenizer, on the text s from the (1-based) position i
\* ------------------------------------------------------------------------
CharAt(s, i) == IF i >= 1 /\ i <= Len(s) THEN s[i] ELSE NoChar

Tok(kind, text, value, start, nxt) ==
  [kind |-> kind, text |-> text, value |-> value, start |-> <<1, start>>, nxt |-> nxt]

TokError(msg, at) == [kind |-> "TokenizerException", msg |-> msg, start |-> <<1, at>>]

IsTokError(t) == t.kind = "TokenizerException"

IndexOf(s, c) == IF \E i \in 1..Len(s) : s[i] = c
                 THEN (CHOOSE i \in 1..Len(s) : s[i] = c /\ \A j \in 1..(i - 1) : s[j] # c) - 1
                 ELSE -1

\* parseInt(s, radix) on an unsigned run of characters: the value of the
\* longest prefix of digits valid in the radix (x10), NaN when it is empty.
RECURSIVE ParseDigits(_, _, _)
ParseDigits(s, radix, acc) ==
  IF s = <<>> \/ ~is_hex_digit(Head(s)) \/ DigitVal(Head(s)) >= radix THEN acc
  ELSE ParseDigits(Tail(s), radix, acc * radix + DigitVal(Head(s)))

ParseInt(s, radix) ==
  LET neg == s # <<>> /\ Head(s) = "-"
      body == IF neg THEN Tail(s) ELSE s
  IN IF body = <<>> \/ ~is_hex_digit(Head(body)) \/ DigitVal(Head(body)) >= radix
     THEN [t |-> "number", x10 |-> 0, nan |-> TRUE]
     ELSE IntV((IF neg THEN -1 ELSE 1) * ParseDigits(body, radix, 0))

\* parseFloat(s) for a decimal text with at most one digit after the point
ParseFloat(s) ==
  LET neg == s # <<>> /\ Head(s) = "-"
      body == IF neg THEN Tail(s) ELSE s
      dot == IndexOf(body, ".")
      whole == IF dot < 0 THEN body ELSE SubSeq(body, 1, dot)
      frac == IF dot < 0 THEN <<>> ELSE SubSeq(body, dot + 2, Len(body))
      w == ParseDigits(whole, 10, 0)
      f == IF frac = <<>> THEN 0 ELSE DigitVal(Head(frac))
  IN Num((IF neg THEN -1 ELSE 1) * (10 * w + f))

\* Tokenizer.getNumber, the test of a digit of the radix
IsDigitOf(radix, c) ==
  IF radix = 16 THEN is_hex_digit(c) ELSE is_digit(c) /\ DigitVal(c) < (IF radix = 0 THEN 10 ELSE radix)

\* Tokenizer.getNumber, the while loop: text holds what was read so far, i is
\* the position of the next character; bad tells that the loop ended at an
\* underscore that follows no digit
RECURSIVE getNumberLoop(_, _, _, _, _, _)
getNumberLoop(s, text, i, radix, in_exponent, last_was_digit) ==
  LET c == CharAt(s, i) IN
  IF c = NoChar \/ (c = "_" /\ ~last_was_digit)
  THEN [text |-> text, c |-> c, i |-> i, radix |-> radix, in_exponent |-> in_exponent,
        bad |-> c = "_"]
  ELSE IF c = "_" THEN getNumberLoop(s, text \o <<c>>, i + 1, radix, in_exponent, FALSE)
  ELSE IF IsDigitOf(radix, c)
  THEN getNumberLoop(s, text \o <<c>>, i + 1, radix, in_exponent, TRUE)
  ELSE IF c \in {"o", "O", "x", "X", "b", "B"} /\ Len(text) = 1 /\ text[1] = "0"
  THEN getNumberLoop(s, text \o <<c>>, i + 1,
                     IF c \in {"x", "X"} THEN 16 ELSE IF c \in {"o", "O"} THEN 8 ELSE 2,
                     in_exponent, FALSE)
  ELSE IF radix = 0 /\ c = "." /\ ~in_exponent /\ IndexOf(text, c) < 0
  THEN getNumberLoop(s, text \o <<c>>, i + 1, radix, in_exponent, FALSE)
  ELSE IF radix = 0 /\ c = "-" /\ IndexOf(Tail(text), c) < 0 /\ in_exponent
  THEN getNumberLoop(s, text \o <<c>>, i + 1, radix, in_exponent, FALSE)
  ELSE IF /\ radix = 0 /\ c \in {"e", "E"} /\ IndexOf(text, "e") < 0 /\ IndexOf(text, "E") < 0
          /\ text[Len(text)] # "_"
  THEN getNumberLoop(s, text \o <<c>>, i + 1, radix, TRUE, FALSE)
  ELSE [text |-> text, c |-> c, i |-> i, radix |-> radix, in_exponent |-> in_exponent,
        bad |-> FALSE]

\* text.replace(/_/g, '')
Stripped(text) == SelectSeq(text, LAMBDA ch : ch # "_")

\* Tokenizer.getNumber, the value of the text s without its underscores.
\* parseInt stops at the first character that is no digit of the radix and
\* never throws.  A number with an exponent is kept as the text parseFloat
\* reads.
numberValue(s, radix, in_exponent, dot_seen) ==
  IF radix # 0 THEN ParseInt(SubSeq(s, 3, Len(s)), radix)
  ELSE IF in_exponent THEN [t |-> "number", float |-> s]
  ELSE IF dot_seen THEN ParseFloat(s)
  ELSE ParseInt(s, IF s[1] = "0" THEN 8 ELSE 10)

\* Tokenizer.getNumber
getNumber(s, text0, start, i0) ==
  LET r == getNumberLoop(s, text0, i0, 0, FALSE, is_digit(text0[Len(text0)]))
      text == r.text
      c == r.c
      dot_seen == IndexOf(text0, ".") >= 0 \/ IndexOf(text, ".") >= 0 \/ c = "."
  IN IF r.bad THEN TokError(<<"Invalid '_' in number", text \o <<c>>>>, r.i)
     ELSE IF text[Len(text)] = "_" THEN TokError(<<"Invalid '_' at end of number", text>>, r.i - 1)
     ELSE IF r.radix = 0 /\ c \in {"j", "J"}
     THEN Tok(COMPLEX, text \o <<c>>, [t |-> "complex", imaginary |-> Stripped(text)], start, r.i + 1)
     ELSE IF c = "." \/ (c # NoChar /\ is_letter_or_digit(c))
     THEN TokError(<<"Invalid character in number", c>>, r.i)
     ELSE Tok(IF r.radix = 0 /\ (r.in_exponent \/ dot_seen) THEN FLOAT ELSE INTEGER, text,
              numberValue(Stripped(text), r.radix, r.in_exponent, dot_seen), start, r.i)

RECURSIVE wordEnd(_, _)
wordEnd(s, i) ==
  LET c == CharAt(s, i) IN
  IF c # NoChar /\ (is_letter_or_digit(c) \/ c = "_") THEN wordEnd(s, i + 1) ELSE i

\* String.fromCodePoint(j): the character itself where the texts of the model
\* hold it, and a name made of its code point where they do not
fromCodePoint(j) ==
  IF j >= 48 /\ j <= 57 THEN ToString(j - 48)
  ELSE IF j = 10 THEN "\n"
  ELSE IF j = 34 THEN "\""
  ELSE IF j = 39 THEN "'"
  ELSE IF j = 92 THEN "\\"
  ELSE "U+" \o ToString(j)

\* ESCAPES, as the code points of its values
ESCAPES ==
  [c \in {"a", "b", "f", "n", "r", "t", "v", "\\", "'", "\""} |->
     CASE c = "a" -> 7 [] c = "b" -> 8 [] c = "f" -> 12 [] c = "n" -> 10 [] c = "r" -> 13
       [] c = "t" -> 9 [] c = "v" -> 11 [] c = "\\" -> 92 [] c = "'" -> 39 [] c = "\"" -> 34]

\* parseEscapes: the digits p of an x, u or U escape give a character, or
\* the escape fails: parseInt reads the longest prefix of hexadecimal digits
\* and gives NaN when there is none, and String.fromCodePoint throws on NaN
\* and on a negative number
escapeFails(p) ==
  LET j == ParseInt(p, 16) IN
  \/ "nan" \in DOMAIN j
  \/ j.x10 < 0
  \/ (j.x10 \div 10 >= 55296 /\ j.x10 \div 10 <= 57343)
  \/ j.x10 \div 10 >= 1114112

\* parseEscapes, the while loop: s is the text still to decode, which has a
\* backslash, and sb what is decoded
RECURSIVE parseEscapesLoop(_, _)
parseEscapesLoop(s, sb) ==
  LET i == IndexOf(s, "\\")
      c == CharAt(s, i + 2)
      slen == IF c \in {"x", "X"} THEN 4 ELSE IF c = "u" THEN 6 ELSE 10
      done == IF c \in DOMAIN ESCAPES THEN 2 ELSE slen
      char == IF c \in DOMAIN ESCAPES THEN fromCodePoint(ESCAPES[c])
              ELSE fromCodePoint(ParseInt(SubSeq(s, i + 3, i + slen), 16).x10 \div 10)
      rest == SubSeq(s, i + done + 1, Len(s))
  IN IF c \notin DOMAIN ESCAPES
        /\ (c \notin {"x", "X", "u", "U"} \/ i + slen > Len(s)
            \/ escapeFails(SubSeq(s, i + 3, i + slen)))
     THEN [ok |-> FALSE, msg |-> <<"Invalid escape sequence">>]
     ELSE IF IndexOf(rest, "\\") < 0
     THEN [ok |-> TRUE, s |-> sb \o SubSeq(s, 1, i) \o <<char>> \o rest]
     ELSE parseEscapesLoop(rest, sb \o SubSeq(s, 1, i) \o <<char>>)

\* parseEscapes
parseEscapes(inp) ==
  IF IndexOf(inp, "\\") < 0 THEN [ok |-> TRUE, s |-> inp] ELSE parseEscapesLoop(inp, <<>>)

RECURSIVE stringEnd(_, _, _, _)
\* position of the closing quote, 0 when the string is unterminated
stringEnd(s, quote, i, escaped) ==
  LET c == CharAt(s, i) IN
  IF c = NoChar THEN 0
  ELSE IF c = quote /\ ~escaped THEN i
  ELSE stringEnd(s, quote, i + 1, IF c = "\\" THEN ~escaped ELSE FALSE)

\* the kind of the token the two characters c c2 make
twoChars(c, c2) ==
  CASE c = "<" /\ c2 = "=" -> LE
    [] c = "<" /\ c2 = ">" -> ALT_NEQ
    [] c = "<" /\ c2 = "<" -> LSHIFT
    [] c = ">" /\ c2 = "=" -> GE
    [] c = ">" /\ c2 = ">" -> RSHIFT
    [] c = "!" -> NEQ
    [] c = "/" -> SLASHSLASH
    [] c = "*" -> POWER
    [] c = "&" -> AND
    [] OTHER -> OR

RECURSIVE getToken(_, _)
getToken(s, i) ==
  LET c == CharAt(s, i) IN
  IF c = NoChar THEN Tok(EOF, <<>>, Undefined, i, i)
  ELSE IF c = NEWLINE THEN Tok(NEWLINE, <<c>>, Undefined, i, i + 1)
  ELSE IF is_whitespace(c) THEN getToken(s, i + 1)
  ELSE IF is_letter(c) \/ c = "_" THEN
    LET e == wordEnd(s, i + 1)
        text == SubSeq(s, i, e - 1)
    IN Tok(IF text \in DOMAIN KEYWORDS THEN KEYWORDS[text] ELSE WORD, text,
           IF text = <<"f", "a", "l", "s", "e">> THEN Bool(FALSE) ELSE Str(text), i, e)
  ELSE IF c = "'" \/ c = "\"" THEN
    LET e == stringEnd(s, c, i + 1, FALSE) IN
    IF e = 0 THEN TokError(<<"Unterminated quoted string">>, i)
    ELSE IF ~parseEscapes(SubSeq(s, i + 1, e - 1)).ok
    THEN TokError(parseEscapes(SubSeq(s, i + 1, e - 1)).msg, i)
    ELSE Tok(STRING_, SubSeq(s, i, e), Str(parseEscapes(SubSeq(s, i + 1, e - 1)).s), i, e + 1)
  ELSE IF is_digit(c) THEN getNumber(s, <<c>>, i, i + 1)
  ELSE IF c = "=" THEN
    (IF CharAt(s, i + 1) # "=" THEN Tok(ASSIGN, <<c>>, Undefined, i, i + 1)
     ELSE Tok(EQ, <<c, c>>, Undefined, i, i + 2))
  ELSE IF c \in DOMAIN PUNCTUATION THEN
    LET c2 == CharAt(s, i + 1) IN
    IF c = "." /\ is_digit(c2) THEN getNumber(s, <<c, c2>>, i, i + 2)
    ELSE IF c = "-" /\ (is_digit(c2) \/ c2 = ".") THEN getNumber(s, <<c, c2>>, i, i + 2)
    ELSE IF \/ c = "<" /\ c2 \in {"=", ">", "<"}
            \/ c = ">" /\ c2 \in {"=", ">"}
            \/ c = "!" /\ c2 = "="
            \/ c \in {"/", "*", "&", "|"} /\ c2 = c
    THEN Tok(twoChars(c, c2), <<c, c2>>, Undefined, i, i + 2)
    ELSE Tok(PUNCTUATION[c], <<c>>, Undefined, i, i + 1)
  ELSE TokError(<<"Unexpected character", c>>, i)


\* ------------------------------------------------------------------------
\* AST nodes
\* ------------------------------------------------------------------------
NoNode == [type |-> "null"]
UnaryNode(kind, operand, start) ==
  [type |-> "Unary", kind |-> kind, operand |-> operand, start |-> start]
BinaryNode(kind, left, right) ==
  [type |-> "Binary", kind |-> kind, left |-> left, right |-> right]
SliceNode(start, stop, step) ==
  [type |-> "Slice", kind |-> COLON, startIndex |-> start, stopIndex |-> stop, step |-> step]
ListNode(elements) == [type |-> "List", kind |-> LBRACK, elements |-> elements]
\* elements: a sequence of <<key token, value node>> pairs
MappingNode(elements) == [type |-> "Mapping", kind |-> LCURLY, elements |-> elements]
\* a Token as the parser returns it
Token(kind, text, value, start) ==
  [type |-> "Token", kind |-> kind, text |-> text, value |-> value, start |-> start]

IsToken(n) == n.type = "Token"

\* ------------------------------------------------------------------------
\* Parser, restricted to what a path string is made of: the rules primary,
\* trailer, and for an index or slice part a list body whose expressions
\* are primaries over WORD, INTEGER, FLOAT and STRING_ tokens.
\* A parse result is [ok, node, next] (next: the pending token) or a failure.
\* ------------------------------------------------------------------------
PErr(ex, msg) == [ok |-> FALSE, ex |-> ex, msg |-> msg]
POk(node, next) == [ok |-> TRUE, node |-> node, next |-> next]

\* the rest K of a parse after the step r, unless r failed
PThen(r, K(_)) == IF ~r.ok THEN r ELSE K(r)
\* the rest K of a parse after the token n, unless the tokenizer failed
TThen(n, K(_)) == IF IsTokError(n) THEN PErr("TokenizerException", n.msg) ELSE K(n)

AsNode(tok) == Token(tok.kind, tok.text, tok.value, tok.start)

\* The rules of the parser that are used from many places are reached
\* through one operator, rule, which runs the body of the rule named.
RECURSIVE rule(_, _)
advance(s, tok) == rule("advance", <<s, tok>>)
primary(s, tok) == rule("primary", <<s, tok>>)
parsePath(s) == rule("parsePath", <<s>>)

\* Parser.expect
expect(s, tok, kind) ==
  IF tok.kind # kind THEN PErr("ParserException", <<"expected", kind, "but got", tok.kind>>)
  ELSE TThen(advance(s, tok), LAMBDA n : POk(AsNode(tok), n))

\* Parser.consumeNewlines: the first token from tok on that is no NEWLINE
RECURSIVE consumeNewlines(_, _)
consumeNewlines(s, tok) ==
  IF IsTokError(tok) \/ tok.kind # NEWLINE THEN tok ELSE consumeNewlines(s, advance(s, tok))

\* Parser.strings: the STRING tokens from first on, as one token; tok is the
\* last of them read so far
RECURSIVE strings(_, _, _, _, _)
strings(s, first, text, value, tok) ==
  TThen(advance(s, tok), LAMBDA n :
    IF n.kind = STRING_ THEN strings(s, first, text \o n.text, value \o n.value.s, n)
    ELSE POk(Token(STRING_, text, Str(value), first.start), n))

\* node.start = spos
WithStart(node, spos) == [start |-> spos] @@ node

\* Parser.value, for a token of VALUE_STARTERS
value(s, tok) ==
  IF tok.kind = STRING_ THEN strings(s, tok, tok.text, tok.value.s, tok)
  ELSE TThen(advance(s, tok), LAMBDA n : POk(AsNode(tok), n))

\* Parser.atom
atom(s, tok) ==
  CASE tok.kind = LCURLY -> rule("mapping", <<s, tok>>)
    [] tok.kind = LBRACK -> rule("list", <<s, tok>>)
    [] tok.kind = DOLLAR ->
         TThen(advance(s, tok), LAMBDA n :
           PThen(expect(s, n, LCURLY), LAMBDA o :
             PThen(primary(s, o.next), LAMBDA p :
               PThen(expect(s, p.next, RCURLY), LAMBDA cl :
                 POk(UnaryNode(DOLLAR, p.node, o.next.start), cl.next)))))
    [] tok.kind \in {WORD, INTEGER, FLOAT, COMPLEX, STRING_, BACKTICK, TRUE_, FALSE_, NONE} ->
         value(s, tok)
    [] tok.kind = LPAREN ->
         TThen(advance(s, tok), LAMBDA n :
           PThen(rule("expr", <<s, n>>), LAMBDA e :
             PThen(expect(s, e.next, RPAREN), LAMBDA cl : POk(e.node, cl.next))))
    [] OTHER -> PErr("ParserException", <<"Unexpected", tok.kind>>)

EXPRESSION_STARTERS ==
  {LCURLY, LBRACK, LPAREN, AT, DOLLAR, BACKTICK, PLUS, MINUS, TILDE, INTEGER, FLOAT, COMPLEX,
   TRUE_, FALSE_, NONE, NOT, STRING_, WORD}

RECURSIVE primaryLoop(_, _, _), trailer(_, _), getSliceElement(_, _),
          sliceRest(_, _, _), tryGetStep(_, _, _, _)

\* Parser.listBody with the check of getSliceElement: exactly one expression
getSliceElement(s, tok) ==
  IF tok.kind \notin EXPRESSION_STARTERS
  THEN PErr("ParserException", <<"Invalid index: expected 1 expression, found", 0>>)
  ELSE PThen(rule("expr", <<s, tok>>), LAMBDA e :
         IF e.next.kind = ","
         THEN PErr("ParserException", <<"Invalid index: expected 1 expression, found", 2>>)
         ELSE e)

\* tryGetStep, after the COLON token tok that follows the stop position
tryGetStep(s, tok, startIndex, stopIndex) ==
  TThen(advance(s, tok), LAMBDA n :
    IF n.kind # RBRACK
    THEN PThen(getSliceElement(s, n), LAMBDA st :
           POk(SliceNode(startIndex, stopIndex, st.node), st.next))
    ELSE POk(SliceNode(startIndex, stopIndex, NoNode), n))

\* the isSlice branch of Parser.trailer; tok is the COLON after the start
sliceRest(s, tok, startIndex) ==
  TThen(advance(s, tok), LAMBDA n :
    IF n.kind = COLON THEN tryGetStep(s, n, startIndex, NoNode)
    ELSE IF n.kind # RBRACK
    THEN PThen(getSliceElement(s, n), LAMBDA sp :
           IF sp.next.kind = COLON THEN tryGetStep(s, sp.next, startIndex, sp.node)
           ELSE POk(SliceNode(startIndex, sp.node, NoNode), sp.next))
    ELSE POk(SliceNode(startIndex, NoNode, NoNode), n))

\* the index or slice between the brackets of a trailer; n is the token after [
trailerInner(s, n) ==
  IF n.kind = COLON THEN sliceRest(s, n, NoNode)
  ELSE PThen(getSliceElement(s, n), LAMBDA elem :
         IF elem.next.kind # COLON THEN elem ELSE sliceRest(s, elem.next, elem.node))

\* Parser.trailer: [ok, op, node, next]
trailer(s, tok) ==
  IF tok.kind # LBRACK
  THEN PThen(expect(s, tok, DOT), LAMBDA d :
         PThen(expect(s, d.next, WORD), LAMBDA w :
           [ok |-> TRUE, op |-> DOT, node |-> w.node, next |-> w.next]))
  ELSE TThen(advance(s, tok), LAMBDA n :
         PThen(trailerInner(s, n), LAMBDA r :
           PThen(expect(s, r.next, RBRACK), LAMBDA cl :
             [ok |-> TRUE, op |-> IF r.node.type = "Slice" THEN COLON ELSE LBRACK,
              node |-> r.node, next |-> cl.next])))

primaryLoop(s, result, tok) ==
  IF tok.kind = DOT \/ tok.kind = LBRACK
  THEN PThen(trailer(s, tok), LAMBDA p :
         primaryLoop(s, BinaryNode(p.op, result, p.node), p.next))
  ELSE POk(result, tok)

\* Parser.objectKey
objectKey(s, tok) ==
  IF tok.kind = STRING_ THEN strings(s, tok, tok.text, tok.value.s, tok)
  ELSE TThen(advance(s, tok), LAMBDA n : POk(AsNode(tok), n))

\* Parser.power: the while loop, with the token tok next
powerLoop(s, result, tok) ==
  IF tok.kind # POWER THEN POk(result, tok)
  ELSE TThen(advance(s, tok), LAMBDA n :
         PThen(rule("unaryExpr", <<s, n>>), LAMBDA u :
           rule("powerLoop", <<s, BinaryNode(POWER, result, u.node), u.next>>)))

\* Parser.power
power(s, tok) == PThen(primary(s, tok), LAMBDA p : powerLoop(s, p.node, p.next))

\* Parser.unaryExpr: the node of a sign has no start
unaryExpr(s, tok) ==
  IF tok.kind \notin {PLUS, MINUS, TILDE, AT}
  THEN PThen(power(s, tok), LAMBDA r : POk(WithStart(r.node, tok.start), r.next))
  ELSE TThen(advance(s, tok), LAMBDA n :
         PThen(rule("unaryExpr", <<s, n>>), LAMBDA u :
           POk([type |-> "Unary", kind |-> tok.kind, operand |-> u.node], u.next)))

\* Parser.mulExpr, addExpr, shiftExpr, bitandExpr, bitxorExpr, bitorExpr,
\* andExpr and expr: the kinds of the rule's operators and the rule of its operands
binaryRules ==
  [mulExpr |-> [ops |-> {STAR, SLASH, SLASHSLASH, MODULO}, operand |-> "unaryExpr"],
   addExpr |-> [ops |-> {PLUS, MINUS}, operand |-> "mulExpr"],
   shiftExpr |-> [ops |-> {LSHIFT, RSHIFT}, operand |-> "addExpr"],
   bitandExpr |-> [ops |-> {BITAND}, operand |-> "shiftExpr"],
   bitxorExpr |-> [ops |-> {BITXOR}, operand |-> "bitandExpr"],
   bitorExpr |-> [ops |-> {BITOR}, operand |-> "bitxorExpr"],
   andExpr |-> [ops |-> {AND}, operand |-> "notExpr"],
   expr |-> [ops |-> {OR}, operand |-> "andExpr"]]

\* the while loop of the rule f, with the token tok next, written with the
\* whole rule in place of its operand: the operators would group to the right
binaryLoopRight(f, s, result, tok) ==
  IF tok.kind \notin binaryRules[f].ops THEN POk(result, tok)
  ELSE TThen(advance(s, tok), LAMBDA n :
         PThen(rule(f, <<s, n>>), LAMBDA r :
           POk(BinaryNode(tok.kind, result, r.node), r.next)))

\* the while loop of the rule f, with the token tok next
binaryLoop(f, s, result, tok) ==
  IF tok.kind \notin binaryRules[f].ops THEN POk(result, tok)
  ELSE TThen(advance(s, tok), LAMBDA n :
         PThen(rule(binaryRules[f].operand, <<s, n>>), LAMBDA r :
           rule("binaryLoop", <<f, s, BinaryNode(tok.kind, result, r.node), r.next>>)))

\* the rule f of binaryRules
binaryExpr(f, s, tok) ==
  PThen(rule(binaryRules[f].operand, <<s, tok>>), LAMBDA l :
    binaryLoop(f, s, l.node, l.next))

COMPARISON_OPERATORS == {LT, LE, GT, GE, EQ, NEQ, ALT_NEQ, IS, IN_, NOT}

\* Parser.compOp at the operator token tok: [ok, op, next]
compOp(s, tok) ==
  TThen(advance(s, tok), LAMBDA n :
    IF (tok.kind = IS /\ n.kind = NOT) \/ (tok.kind = NOT /\ n.kind = IN_)
    THEN TThen(advance(s, n), LAMBDA m :
           [ok |-> TRUE, op |-> IF tok.kind = IS THEN ISNOT ELSE NOTIN, next |-> m])
    ELSE [ok |-> TRUE, op |-> tok.kind, next |-> n])

\* Parser.comparison: the while loop, with the token tok next
comparisonLoop(s, result, tok) ==
  IF tok.kind \notin COMPARISON_OPERATORS THEN POk(result, tok)
  ELSE PThen(compOp(s, tok), LAMBDA o :
         PThen(rule("bitorExpr", <<s, o.next>>), LAMBDA r :
           rule("comparisonLoop", <<s, BinaryNode(o.op, result, r.node), r.next>>)))

\* Parser.comparison
comparison(s, tok) ==
  PThen(rule("bitorExpr", <<s, tok>>), LAMBDA l : comparisonLoop(s, l.node, l.next))

\* Parser.notExpr
notExpr(s, tok) ==
  IF tok.kind # NOT THEN comparison(s, tok)
  ELSE TThen(advance(s, tok), LAMBDA n :
         PThen(rule("notExpr", <<s, n>>), LAMBDA u :
           POk([type |-> "Unary", kind |-> NOT, operand |-> u.node], u.next)))

\* Parser.expr
expr(s, tok) == rule("expr", <<s, tok>>)

\* Parser.mappingBody: what follows the value e of an entry
afterValue(s, e, result) ==
  IF e.next.kind \in {NEWLINE, COMMA}
  THEN TThen(consumeNewlines(s, advance(s, e.next)), LAMBDA n :
         IF n.kind \in {WORD, STRING_} THEN rule("mappingBodyLoop", <<s, n, result>>)
         ELSE POk(MappingNode(result), n))
  ELSE IF e.next.kind \in {WORD, STRING_} THEN rule("mappingBodyLoop", <<s, e.next, result>>)
  ELSE POk(MappingNode(result), e.next)

\* Parser.mappingBody: the while loop, at the key token tok
mappingBodyLoop(s, tok, result) ==
  PThen(objectKey(s, tok), LAMBDA key :
    IF key.next.kind \notin {COLON, ASSIGN}
    THEN PErr("ParserException", <<"Expected key-value separator, but found", key.next.kind>>)
    ELSE TThen(consumeNewlines(s, advance(s, key.next)), LAMBDA v :
           PThen(expr(s, v), LAMBDA e :
             afterValue(s, e, Append(result, <<key.node, e.node>>)))))

\* Parser.mappingBody
mappingBody(s, tok) ==
  TThen(consumeNewlines(s, tok), LAMBDA k :
    IF k.kind \in {RCURLY, EOF} THEN POk(MappingNode(<<>>), k)
    ELSE IF k.kind \notin {WORD, STRING_}
    THEN PErr("ParserException", <<"Unexpected type for key", k.kind>>)
    ELSE rule("mappingBodyLoop", <<s, k, <<>>>>))

\* Parser.mapping
mapping(s, tok) ==
  PThen(expect(s, tok, LCURLY), LAMBDA o :
    PThen(mappingBody(s, o.next), LAMBDA b :
      PThen(expect(s, b.next, RCURLY), LAMBDA cl : POk(b.node, cl.next))))

\* Parser.listBody: the while loop, at the token tok
listBodyLoop(s, tok, result) ==
  IF tok.kind \notin EXPRESSION_STARTERS THEN POk(ListNode(result), tok)
  ELSE PThen(expr(s, tok), LAMBDA e :
         IF e.next.kind \notin {NEWLINE, COMMA} THEN POk(ListNode(Append(result, e.node)), e.next)
         ELSE TThen(consumeNewlines(s, advance(s, e.next)), LAMBDA n :
                rule("listBodyLoop", <<s, n, Append(result, e.node)>>)))

\* Parser.list, with the end of listBody: the start of the node is that of
\* the token after the bracket
list(s, tok) ==
  PThen(expect(s, tok, LBRACK), LAMBDA o :
    TThen(consumeNewlines(s, o.next), LAMBDA k :
      PThen(listBodyLoop(s, k, <<>>), LAMBDA b :
        PThen(expect(s, b.next, RBRACK), LAMBDA cl : POk(WithStart(b.node, k.start), cl.next)))))

\* Parser.container, on a new Parser: the node, and the token that is next
\* when the rule returns
Container(s) ==
  TThen(consumeNewlines(s, advance(s, [nxt |-> 1])), LAMBDA k :
    PThen(IF k.kind = LCURLY THEN mapping(s, k)
          ELSE IF k.kind = LBRACK THEN list(s, k)
          ELSE IF k.kind \in {WORD, STRING_, EOF} THEN mappingBody(s, k)
          ELSE PErr("ParserException", <<"Unexpected type for container", k.kind>>),
          LAMBDA r : TThen(consumeNewlines(s, r.next), LAMBDA n : POk(r.node, n))))

\* parsePath: the node, or the InvalidPathException every failure is turned into
InvalidPath(s) == [ok |-> FALSE, ex |-> "InvalidPathException", msg |-> <<"Invalid path", s>>]

\* the end of parsePath: the node when the parse took the whole text
parsePathEnd(s, r) ==
  IF ~r.ok \/ r.next.kind # EOF THEN InvalidPath(s) ELSE [ok |-> TRUE, node |-> r.node]
\* the parse of a path from its first token on
parsePathFrom(s, first) ==
  IF IsTokError(first) \/ first.kind # WORD THEN InvalidPath(s)
  ELSE parsePathEnd(s, primary(s, first))

\* Parser.advance after the token a[2]; Parser.primary; parsePath, whose
\* new Parser reads its first token at the start of the text
rule(f, a) ==
  CASE f = "advance" -> getToken(a[1], a[2].nxt)
    [] f = "primary" ->
         PThen(atom(a[1], a[2]), LAMBDA r : primaryLoop(a[1], r.node, r.next))
    [] f = "parsePath" -> parsePathFrom(a[1], advance(a[1], [nxt |-> 1]))
    [] f = "mappingBodyLoop" -> mappingBodyLoop(a[1], a[2], a[3])
    [] f = "listBodyLoop" -> listBodyLoop(a[1], a[2], a[3])
    [] f = "mapping" -> mapping(a[1], a[2])
    [] f = "list" -> list(a[1], a[2])
    [] f = "powerLoop" -> powerLoop(a[1], a[2], a[3])
    [] f = "unaryExpr" -> unaryExpr(a[1], a[2])
    [] f \in DOMAIN binaryRules -> binaryExpr(f, a[1], a[2])
    [] f = "binaryLoop" -> binaryLoop(a[1], a[2], a[3], a[4])
    [] f = "comparisonLoop" -> comparisonLoop(a[1], a[2], a[3])
    [] f = "notExpr" -> notExpr(a[1], a[2])

\* pathIterator: the first token, then the <<op, operand>> steps
RECURSIVE pathIterator(_)
pathIterator(node) ==
  IF node.type = "Token" THEN <<node>>
  ELSE IF node.type = "Unary" THEN pathIterator(node.operand)
  ELSE IF node.kind = COLON THEN Append(pathIterator(node.left), <<node.kind, node.right>>)
  ELSE Append(pathIterator(node.left),
              <<node.kind, IF IsToken(node.right) THEN node.right.value ELSE Undefined>>)

\* IDENTIFIER_PATTERN.test(s)
isIdentifier(s) ==
  /\ s # <<>>
  /\ is_letter(s[1]) \/ s[1] = "_"
  /\ \A i \in 2..Len(s) : is_letter_or_digit(s[i]) \/ s[i] = "_"


\* ------------------------------------------------------------------------
\* Objects.  A plain JavaScript object or array is a sequence of <<key, value>>
\* pairs in insertion order (an array's keys are its indices as strings); it
\* lives in the heap and is named by its address, so that two holders of the
\* same object see each other's changes.
\* ------------------------------------------------------------------------
ObjHas(p, k) == \E i \in 1..Len(p) : p[i][1] = k
ObjIdx(p, k) == CHOOSE i \in 1..Len(p) : p[i][1] = k
ObjGet(p, k) == p[ObjIdx(p, k)][2]
ObjPut(p, k, v) == IF ObjHas(p, k) THEN [p EXCEPT ![ObjIdx(p, k)] = <<k, v>>]
                   ELSE Append(p, <<k, v>>)
ObjKeys(p) == {p[i][1] : i \in 1..Len(p)}

DigitChars == <<"0", "1", "2", "3", "4", "5", "6", "7", "8", "9">>

\* Number.prototype.toString for the numbers of the model
RECURSIVE NatToString(_)
NatToString(n) == IF n < 10 THEN <<DigitChars[n + 1]>>
                  ELSE NatToString(n \div 10) \o <<DigitChars[(n % 10) + 1]>>

NumToString(v) ==
  LET a == IF v.x10 < 0 THEN -v.x10 ELSE v.x10
      whole == NatToString(a \div 10)
      body == IF a % 10 = 0 THEN whole ELSE whole \o <<".">> \o <<DigitChars[(a % 10) + 1]>>
  IN IF v.x10 < 0 THEN <<"-">> \o body ELSE body

\* the text of an integer, as a template literal prints it
IntText(i) == NumToString(Num(10 * i))

ObjRef(a) == [t |-> "object", a |-> a]
DictWrapper(data) == [t |-> "DictWrapper", data |-> data]
ListWrapper(data) == [t |-> "ListWrapper", data |-> data]
MISSING == [t |-> "MISSING"]

\* typeof v == 'object' for a plain value
TypeofObject(v) == v.t \in {"object", "null"}

\* ------------------------------------------------------------------------
\* The Config object c: data (the root DictWrapper, or Null), cache, refsSeen,
\* the options, and the heap of plain objects.  Every operation returns the
\* value or the exception together with the Config as it leaves it.
\* ------------------------------------------------------------------------
Ok(v, c) == [ok |-> TRUE, v |-> v, c |-> c]
Throw(ex, msg, c) == [ok |-> FALSE, ex |-> ex, msg |-> msg, c |-> c]
\* the rest K of a computation after the step r, unless r threw
Then(r, K(_)) == IF ~r.ok THEN r ELSE K(r)

\* instanceof ConfigException
IsConfigException(ex) ==
  ex \in {"ConfigException", "InvalidPathException", "BadIndexException",
          "CircularReferenceException"}

SCALAR_TOKENS == {STRING_, INTEGER, FLOAT, "j", "true", "false", NONE}

Alloc(c, kind, pairs) ==
  Ok(ObjRef(Len(c.heap) + 1), [c EXCEPT !.heap = Append(@, [kind |-> kind, p |-> pairs])])

\* a check for duplicates that never finds one
IsDuplicateNever(seen, k) == FALSE
\* k in seen
IsDuplicate(seen, k) == ObjHas(seen, k)

\* Config.wrapMapping
RECURSIVE wrapMappingLoop(_, _, _, _, _)
wrapMappingLoop(elements, i, result, seen, c) ==
  IF i > Len(elements) THEN Ok(DictWrapper(result), c)
  ELSE LET t == elements[i][1]
           v == elements[i][2]
           k == t.value.s
       IN IF ~c.noDuplicates THEN wrapMappingLoop(elements, i + 1, ObjPut(result, k, v), seen, c)
          ELSE IF IsDuplicate(seen, k)
               THEN Throw("ConfigException", <<"Duplicate key", k, t.start, ObjGet(seen, k)>>, c)
               ELSE wrapMappingLoop(elements, i + 1, ObjPut(result, k, v),
                                    ObjPut(seen, k, t.start), c)

wrapMapping(mn, c) == wrapMappingLoop(mn.elements, 1, <<>>, <<>>, c)

\* Config.wrapList
wrapList(ln) == ListWrapper(ln.elements)

\* toSource of a path node
RECURSIVE toSourceParts(_, _)
toSource(node) ==
  IF node.type = "Token"
  THEN (IF IsStr(node.value) THEN node.value.s ELSE NumToString(node.value))
  ELSE LET pi == pathIterator(node) IN pi[1].value.s \o toSourceParts(pi, 2)

toSourceOperand(v) == IF IsStr(v) THEN v.s ELSE IF IsNum(v) THEN NumToString(v) ELSE <<"?">>

toSourceParts(pi, i) ==
  IF i > Len(pi) THEN <<>>
  ELSE LET op == pi[i][1]
           operand == pi[i][2]
           part ==
             IF op = DOT THEN <<".">> \o operand.s
             ELSE IF op = LBRACK THEN <<"[">> \o toSourceOperand(operand) \o <<"]">>
             ELSE <<"[">>
                  \o (IF operand.startIndex # NoNode THEN toSource(operand.startIndex) ELSE <<>>)
                  \o <<":">>
                  \o (IF operand.stopIndex # NoNode THEN toSource(operand.stopIndex) ELSE <<>>)
                  \o (IF operand.step # NoNode THEN <<":">> \o toSource(operand.step) ELSE <<>>)
                  \o <<"]">>
       IN part \o toSourceParts(pi, i + 1)

\* toSource ends in a TypeError when it reads the toString of undefined: the
\* operand pathIterator yields for an index that is no token
RECURSIVE toSourceThrows(_)
toSourceThrows(node) ==
  /\ node.type # "Token"
  /\ \E i \in 2..Len(pathIterator(node)) :
       LET op == pathIterator(node)[i][1]
           operand == pathIterator(node)[i][2]
       IN \/ op = LBRACK /\ operand = Undefined
          \/ /\ op = COLON
             /\ \E n \in {operand.startIndex, operand.stopIndex, operand.step} :
                  n # NoNode /\ toSourceThrows(n)

\* the message of a CircularReferenceException: one part per node of refsSeen
\* (the code sorts the parts, so the message is a function of this set)
CircularParts(refs) == {<<toSource(n), n.start>> : n \in refs}

\* container.data[i] for any number i: undefined outside the array
DataAt(data, i) ==
  IF i % 10 = 0 /\ i >= 0 /\ i < 10 * Len(data) THEN data[(i \div 10) + 1] ELSE Undefined

\* a range check that lets the index just past the end through
ListInRangeClosed(data, i) == ~(i.x10 < 0 \/ i.x10 > 10 * Len(data))
\* ListWrapper.baseGet, as the path walk uses it: FALSE when it throws
ListInRange(data, i) == ~(i.x10 < 0 \/ i.x10 >= 10 * Len(data))


\* ------------------------------------------------------------------------
\* Slices.  Positions are numbers in tenths, as every number of the model.
\* ------------------------------------------------------------------------
RECURSIVE sliceLoop(_, _, _, _)
\* the loop of Config.getSlice: the positions it reads, in order
sliceLoop(i, stopIndex, step, acc) ==
  IF (IF step > 0 THEN i <= stopIndex ELSE i >= stopIndex)
  THEN sliceLoop(i + step, stopIndex, step, Append(acc, i))
  ELSE acc

\* Config.getSlice after the evaluation of the three parts: size is the list
\* size, hasStart / hasStop tell whether the part is present
slicePositions(size, hasStart, start, hasStop, stop, step) ==
  LET S == 10 * size
      s0 == IF ~hasStart THEN 0 ELSE start
      startIndex == IF s0 < 0 THEN (IF s0 >= -S THEN s0 + S ELSE 0)
                    ELSE IF s0 >= S THEN S - 10 ELSE s0
      stopIndex ==
        IF ~hasStop THEN S - 10
        ELSE LET a == IF stop < 0 THEN (IF stop >= -S THEN stop + S ELSE 0) ELSE stop
                 b == IF a > S THEN S ELSE a
             IN IF step < 0 THEN b + 10 ELSE b - 10
      swap == step < 0 /\ startIndex < stopIndex
  IN sliceLoop(IF swap THEN stopIndex ELSE startIndex,
               IF swap THEN startIndex ELSE stopIndex, step, <<>>)

\* The methods of Config that call one another do so through one operator,
\* call, which runs the body of the method named: evaluate, getFromPath,
\* baseGet and unwrap.
RECURSIVE call(_, _)
evaluate(node, c, d) == call("evaluate", <<node, c, d>>)
getFromPath(node, c, d) == call("getFromPath", <<node, c, d>>)
baseGet(k, dv, c, d) == call("baseGet", <<k, dv, c, d>>)
unwrap(o, c, d) == call("unwrap", <<o, c, d>>)

RECURSIVE walk(_, _, _, _, _), asDictLoop(_, _, _, _, _), asListLoop(_, _, _, _, _),
          mergeDicts(_, _, _), mergeDictsLoop(_, _, _, _)

\* Config.evaluated
evaluated(v, c, d) == IF "type" \in DOMAIN v THEN evaluate(v, c, d) ELSE Ok(v, c)

\* Config.asInt
asInt(node, c, d) ==
  Then(evaluate(node, c, d), LAMBDA r :
    IF ~IsNum(r.v) THEN Throw("ConfigException", <<"expected number, but got">>, r.c)
    ELSE r)

\* a part of a slice: the number of the node, or dflt when there is no node
slicePart(node, dflt, c, d) == IF node = NoNode THEN Ok(IntV(dflt), c) ELSE asInt(node, c, d)

\* the list Config.getSlice returns for the positions pos
sliceOf(container, pos, c) ==
  Ok(ListWrapper([j \in 1..Len(pos) |-> DataAt(container.data, pos[j])]), c)

\* Config.getSlice
getSlice(container, slice, c, d) ==
  Then(slicePart(slice.step, 1, c, d), LAMBDA stepR :
    IF stepR.v.x10 = 0
    THEN Throw("ConfigException", <<"slice step cannot be zero">>, stepR.c)
    ELSE Then(slicePart(slice.startIndex, 0, stepR.c, d), LAMBDA startR :
           Then(slicePart(slice.stopIndex, 0, startR.c, d), LAMBDA stopR :
             sliceOf(container,
                     slicePositions(Len(container.data),
                                    slice.startIndex # NoNode, startR.v.x10,
                                    slice.stopIndex # NoNode, stopR.v.x10, stepR.v.x10),
                     stopR.c))))

\* DictWrapper.asDict: a new plain object
asDictLoop(data, i, acc, c, d) ==
  IF i > Len(data) THEN Alloc(c, "dict", acc)
  ELSE Then(evaluated(data[i][2], c, d), LAMBDA r :
         Then(unwrap(r.v, r.c, d), LAMBDA u :
           asDictLoop(data, i + 1, ObjPut(acc, data[i][1], u.v), u.c, d)))

\* ListWrapper.asList: a new plain array
asListLoop(data, i, acc, c, d) ==
  IF i > Len(data) THEN Alloc(c, "array", acc)
  ELSE Then(evaluated(data[i], c, d), LAMBDA r :
         Then(unwrap(r.v, r.c, d), LAMBDA u :
           asListLoop(data, i + 1, Append(acc, <<NatToString(i - 1), u.v>>), u.c, d)))

\* the pairs of a plain value that is an object; for k in null runs no step
PairsOf(v, heap) == IF v.t = "object" THEN heap[v.a].p ELSE <<>>

\* mergeDicts(target, source): target and source are plain values whose
\* typeof is 'object'; the heap after the merge, or the TypeError of
\* `k in target` on a target that is null
mergeDictsLoop(target, src, i, c) ==
  IF i > Len(src) THEN Ok(Undefined, c)
  ELSE IF target.t = "null" THEN Throw("TypeError", <<"Cannot use 'in' operator">>, c)
  ELSE LET k == src[i][1]
           v == src[i][2]
           tp == c.heap[target.a].p
       IN IF ObjHas(tp, k) /\ TypeofObject(ObjGet(tp, k)) /\ TypeofObject(v)
          THEN Then(mergeDicts(ObjGet(tp, k), v, c), LAMBDA r :
                 mergeDictsLoop(target, src, i + 1, r.c))
          ELSE mergeDictsLoop(target, src, i + 1,
                              [c EXCEPT !.heap[target.a].p = ObjPut(@, k, v)])

mergeDicts(target, source, c) == mergeDictsLoop(target, PairsOf(source, c.heap), 1, c)

\* Config.mergeDictWrappers
mergeDictWrappers(lhs, rhs, c, d) ==
  Then(asDictLoop(lhs.data, 1, <<>>, c, d), LAMBDA l :
    Then(asDictLoop(rhs.data, 1, <<>>, l.c, d), LAMBDA r :
      Then(mergeDicts(l.v, r.v, r.c), LAMBDA m :
        Ok(DictWrapper(m.c.heap[l.v.a].p), m.c))))

\* lhs | rhs for two integers that are not negative
RECURSIVE BitOrNat(_, _)
BitOrNat(a, b) ==
  IF a = 0 THEN b ELSE IF b = 0 THEN a
  ELSE (IF a % 2 = 1 \/ b % 2 = 1 THEN 1 ELSE 0) + 2 * BitOrNat(a \div 2, b \div 2)

\* lhs.asList().concat(rhs.asList()) for the two plain arrays at a and b
concat(a, b, c) ==
  LET pa == c.heap[a.a].p
      pb == c.heap[b.a].p
  IN Ok(ListWrapper([j \in 1..(Len(pa) + Len(pb)) |->
                       IF j <= Len(pa) THEN pa[j][2] ELSE pb[j - Len(pa)][2]]), c)

\* Config.evalAdd, after the evaluation of both operands
evalAdd(lhs, rhs, c, d) ==
  IF lhs.t = "DictWrapper" /\ rhs.t = "DictWrapper" THEN mergeDictWrappers(lhs, rhs, c, d)
  ELSE IF IsStr(lhs) /\ IsStr(rhs) THEN Ok(Str(lhs.s \o rhs.s), c)
  ELSE IF IsNum(lhs) /\ IsNum(rhs) THEN Ok(Num(lhs.x10 + rhs.x10), c)
  ELSE IF lhs.t = "ListWrapper" /\ rhs.t = "ListWrapper"
       THEN Then(asListLoop(lhs.data, 1, <<>>, c, d), LAMBDA a :
              Then(asListLoop(rhs.data, 1, <<>>, a.c, d), LAMBDA b :
                concat(a.v, b.v, b.c)))
  ELSE Throw("ConfigException", <<"unable to add">>, c)

\* Config.evalBitwiseOr, after the evaluation of both operands
evalBitwiseOr(lhs, rhs, c, d) ==
  IF lhs.t = "DictWrapper" /\ rhs.t = "DictWrapper" THEN mergeDictWrappers(lhs, rhs, c, d)
  ELSE IF IsInteger(lhs) /\ IsInteger(rhs) /\ lhs.x10 >= 0 /\ rhs.x10 >= 0
       THEN Ok(IntV(BitOrNat(lhs.x10 \div 10, rhs.x10 \div 10)), c)
  ELSE Throw("ConfigException", <<"unable to compute bitwise-or">>, c)

\* intDiv: a / b, rounded down when it is >= 0 and up when it is negative;
\* a and b are integers, b is not 0
intDiv(a, b) ==
  LET q == (IF a < 0 THEN -a ELSE a) \div (IF b < 0 THEN -b ELSE b)
  IN IF (a < 0) = (b < 0) THEN q ELSE -q

\* Config.evalIntegerDivide, after the evaluation of both operands
evalIntegerDivide(lhs, rhs, c) ==
  IF ~(IsInteger(lhs) /\ IsInteger(rhs))
  THEN Throw("ConfigException", <<"unable to integer-divide">>, c)
  ELSE IF rhs.x10 = 0
  THEN Ok([t |-> "number", x10 |-> 0, infinite |-> TRUE], c)
  ELSE Ok(IntV(intDiv(lhs.x10 \div 10, rhs.x10 \div 10)), c)

\* the evaluation of the operands, left then right, of a binary node
evalBinary(node, c, d) ==
  Then(evaluate(node.left, c, d), LAMBDA l :
    Then(evaluate(node.right, l.c, d), LAMBDA r :
      IF node.kind = PLUS THEN evalAdd(l.v, r.v, r.c, d)
      ELSE IF node.kind = SLASHSLASH THEN evalIntegerDivide(l.v, r.v, r.c)
      ELSE evalBitwiseOr(l.v, r.v, r.c, d)))

\* Config.negateNode (the numbers of the model are not complex)
negateNode(node, c, d) ==
  Then(evaluate(node.operand, c, d), LAMBDA r :
    IF ~IsNum(r.v) THEN Throw("ConfigException", <<"unable to negate">>, r.c)
    ELSE Ok(Num(-r.v.x10), r.c))

\* the truthiness of a value: !!v
Truthy(v) ==
  IF "t" \notin DOMAIN v THEN TRUE
  ELSE IF v.t = "number" THEN v.x10 # 0 \/ "infinite" \in DOMAIN v
  ELSE IF v.t = "string" THEN v.s # <<>>
  ELSE IF v.t = "boolean" THEN v.b
  ELSE v.t \notin {"null", "undefined"}

\* an evaluation of and / or that goes on to the right operand whatever
\* the left one is
StopsNever(kind, lhs) == FALSE
\* Config.evalAnd / Config.evalOr: the test on the left operand that makes
\* them return without the right one
StopsAfterLeft(kind, lhs) == IF kind = AND THEN ~Truthy(lhs) ELSE Truthy(lhs)

\* Config.evalAnd / Config.evalOr
evalAndOr(node, c, d) ==
  Then(evaluate(node.left, c, d), LAMBDA l :
    IF StopsAfterLeft(node.kind, l.v) THEN Ok(Bool(node.kind = OR), l.c)
    ELSE Then(evaluate(node.right, l.c, d), LAMBDA r : Ok(Bool(Truthy(r.v)), r.c)))

\* ENV_VALUE_PATTERN: $ and a name of word characters, then nothing or | and
\* any text; e is where the name ends
EnvMatch(s, e) ==
  /\ Len(s) >= 2 /\ s[1] = "$" /\ e > 2
  /\ e = Len(s) + 1 \/ s[e] = "|"

\* the ENV_VALUE_PATTERN branch of defaultStringConverter:
\* process.env[varName] || dv
envValue(s, e, env) ==
  IF ObjHas(env, SubSeq(s, 2, e - 1)) /\ Truthy(Str(ObjGet(env, SubSeq(s, 2, e - 1))))
  THEN Str(ObjGet(env, SubSeq(s, 2, e - 1)))
  ELSE IF e <= Len(s) THEN Str(SubSeq(s, e + 1, Len(s))) ELSE Null

\* the place of the first } of s at j or later; 0 when there is none
RECURSIVE braceEnd(_, _)
braceEnd(s, j) == IF j > Len(s) THEN 0 ELSE IF s[j] = "}" THEN j ELSE braceEnd(s, j + 1)

\* INTERPOLATION_PATTERN, tried from the place i on: where the first ${...}
\* with something between the braces starts; 0 when there is none
RECURSIVE matchAt(_, _)
matchAt(s, i) ==
  IF i + 3 > Len(s) THEN 0
  ELSE IF s[i] = "$" /\ s[i + 1] = "{" /\ s[i + 2] # "}" /\ braceEnd(s, i + 3) # 0 THEN i
  ELSE matchAt(s, i + 1)

\* INTERPOLATION_PATTERN.exec(s): the pattern is global, so the search starts
\* at its lastIndex, which is left after the match, or at 0 when there is none;
\* sp is m.index and ep the new lastIndex
exec(s, c) ==
  IF c.lastIndex > Len(s) \/ matchAt(s, c.lastIndex + 1) = 0
  THEN [found |-> FALSE, c |-> [c EXCEPT !.lastIndex = 0]]
  ELSE [found |-> TRUE, sp |-> matchAt(s, c.lastIndex + 1) - 1,
        ep |-> braceEnd(s, matchAt(s, c.lastIndex + 1) + 3),
        c |-> [c EXCEPT !.lastIndex = braceEnd(s, matchAt(s, c.lastIndex + 1) + 3)]]

\* stringFor, for the values the documents of the model give
stringFor(o) ==
  IF IsStr(o) THEN o.s
  ELSE IF IsNum(o) THEN NumToString(o)
  ELSE IF o.t = "boolean" THEN (IF o.b THEN <<"t", "r", "u", "e">> ELSE <<"f", "a", "l", "s", "e">>)
  ELSE <<"[", "o", "b", "j", "e", "c", "t", "]">>

\* a call that does not return: a loop without end
NoReturn == "<no return>"

\* the rest K of a try block after the step r, or the catch block H
Try(r, K(_), H(_)) == IF r.ok THEN K(r) ELSE IF r.ex = NoReturn THEN r ELSE H(r)

\* the while loop of the interpolation branch of defaultStringConverter, at
\* its turn n with the match m; a loop that takes more than MaxRounds turns
\* is one that finds the same match again and again
interpolate(s, m, cp, parts, d, n) ==
  IF ~m.found THEN Ok(Str(parts \o SubSeq(s, cp + 1, Len(s))), m.c)
  ELSE IF n > MaxRounds THEN Throw(NoReturn, <<"defaultStringConverter">>, m.c)
  ELSE Try(call("get", <<SubSeq(s, m.sp + 3, m.ep - 1), m.c, d>>),
           LAMBDA v : call("interpolate",
                           <<s, exec(s, v.c), m.ep,
                             (IF cp < m.sp THEN parts \o SubSeq(s, cp + 1, m.sp) ELSE parts)
                               \o stringFor(v.v), d, n + 1>>),
           LAMBDA e : Ok(Str(s), e.c))

\* defaultStringConverter, for a text with a $ in it: such a text is no
\* date and no dotted name, so it is converted when it matches
\* ENV_VALUE_PATTERN or has a ${...} part and returned as it is when not
defaultStringConverter(s, c, d) ==
  IF EnvMatch(s, wordEnd(s, 2)) THEN Ok(envValue(s, wordEnd(s, 2), c.env), c)
  ELSE interpolate(s, exec(s, c), 0, <<>>, d, 1)

\* Config.convertString
convertString(s, c, d) ==
  Then(defaultStringConverter(s, c, d), LAMBDA r :
    IF r.c.strictConversions /\ r.v = Str(s)
    THEN Throw("ConfigException", <<"unable to convert string", s>>, r.c)
    ELSE r)

\* the default options
defaults ==
  [noDuplicates |-> TRUE, strictConversions |-> TRUE, includePath |-> <<>>,
   context |-> <<>>, cached |-> FALSE]
\* the names of the options the constructor copies to the Config
PROPNAMES == {"noDuplicates", "strictConversions", "includePath", "cached"}
\* this[n] after the constructor's loop over PROPNAMES; a property that is
\* never assigned is undefined, which for the context reads as no bindings
Copied(options, n, unset) == IF n \in PROPNAMES THEN options[n] ELSE unset

\* Config.constructor without a stream, on the options merged with the
\* defaults; rootDir is null until a file is loaded.  env is process.env as
\* the Config reads it (the variables that are set, with their values), and
\* lastIndex is INTERPOLATION_PATTERN.lastIndex, the state of the module's one
\* pattern object, which every Config reads and writes, and
\* files the readable files of the file system with what the parser returns
\* for each.
Constructor(options) ==
  [data |-> Null,
   cache |-> [on |-> Copied(options, "cached", FALSE), m |-> <<>>],
   refsSeen |-> {},
   noDuplicates |-> Copied(options, "noDuplicates", FALSE),
   strictConversions |-> Copied(options, "strictConversions", FALSE),
   includePath |-> Copied(options, "includePath", <<>>),
   context |-> Copied(options, "context", <<>>),
   path |-> Null,
   rootDir |-> Null,
   env |-> <<>>,
   files |-> <<>>,
   lastIndex |-> 0,
   heap |-> <<>>]

\* Config.constructor with the cached option alone
NewConfig(cached) == Constructor([defaults EXCEPT !.cached = cached])

\* path.isAbsolute
isAbsolute(p) == Len(p) > 0 /\ p[1] = "/"
\* path.join of a directory and a file name made of plain components
join(dir, fn) == dir \o <<"/">> \o fn
\* path.dirname of an absolute path
RECURSIVE dirname(_)
dirname(p) ==
  IF Len(p) <= 1 THEN <<"/">>
  ELSE IF p[Len(p)] = "/" THEN SubSeq(p, 1, Len(p) - 1)
  ELSE dirname(SubSeq(p, 1, Len(p) - 1))
\* isReadable
isReadable(p, c) == ObjHas(c.files, p)

\* Config.setPath
setPath(p, c) == [c EXCEPT !.path = p, !.rootDir = dirname(p)]

\* Config.evalAt: the loop over includePath from its entry i on
RECURSIVE locate(_, _, _)
locate(fn, i, c) ==
  IF i > Len(c.includePath) THEN Throw("ConfigException", <<"unable to locate", fn>>, c)
  ELSE IF isReadable(join(c.includePath[i], fn), c) THEN Ok(join(c.includePath[i], fn), c)
  ELSE locate(fn, i + 1, c)

\* Config.evalAt: the path of the file to load
located(fn, c) ==
  IF ~isAbsolute(fn)
  THEN IF isReadable(join(c.rootDir, fn), c) THEN Ok(join(c.rootDir, fn), c)
       ELSE locate(fn, 1, c)
  ELSE IF ~isReadable(fn, c) THEN Throw("ConfigException", <<"unable to read", fn>>, c)
  ELSE Ok(fn, c)

\* Config.evalAt: the Config made for an included mapping (its parent link,
\* which no operation of the model follows, is left out)
included(fn, c) ==
  setPath(fn, [Constructor(defaults) EXCEPT !.noDuplicates = c.noDuplicates,
                                            !.strictConversions = c.strictConversions,
                                            !.context = c.context,
                                            !.includePath = c.includePath,
                                            !.env = c.env, !.files = c.files])

\* Config.evalAt: parse the file fn and wrap a mapping
include(fn, cnode, c) ==
  IF cnode.type # "Mapping" THEN Ok(cnode, c)
  ELSE IF ~wrapMapping(cnode, included(fn, c)).ok
  THEN Throw(wrapMapping(cnode, included(fn, c)).ex, wrapMapping(cnode, included(fn, c)).msg, c)
  ELSE Ok([t |-> "Config",
           cfg |-> [included(fn, c) EXCEPT !.data = wrapMapping(cnode, included(fn, c)).v]], c)

\* Config.evalAt
evalAt(node, c, d) ==
  Then(evaluate(node.operand, c, d), LAMBDA r :
    IF ~IsStr(r.v) THEN Throw("ConfigException", <<"@ operand must be a string">>, r.c)
    ELSE IF r.c.rootDir = Null THEN Throw("ConfigException", <<"No root directory found">>, r.c)
    ELSE Then(located(r.v.s, r.c), LAMBDA p : include(p.v, ObjGet(p.c.files, p.v), p.c)))

\* Config.evaluate
evaluateBody(node, c, d) ==
  IF node.type = "Token"
  THEN IF node.kind \in SCALAR_TOKENS THEN Ok(node.value, c)
       ELSE IF node.kind = WORD
            THEN (IF ObjHas(c.context, node.value.s) THEN Ok(ObjGet(c.context, node.value.s), c)
                  ELSE Throw("ConfigException", <<"Unknown variable", node.value.s>>, c))
       ELSE IF node.kind = BACKTICK THEN convertString(node.value.s, c, d)
       ELSE Throw("ConfigException", <<"Unable to evaluate">>, c)
  ELSE IF node.type = "Mapping" THEN wrapMapping(node, c)
  ELSE IF node.type = "List" THEN Ok(wrapList(node), c)
  ELSE IF node.kind = AT THEN evalAt(node, c, d)
  ELSE IF node.kind = DOLLAR THEN getFromPath(node, c, d)
  ELSE IF node.kind = PLUS /\ node.type = "Unary"
  THEN \* evalAdd reads node.left, which a unary node does not have
       Throw("Error", <<"evaluate() called on non-node">>, c)
  ELSE IF node.kind \in {PLUS, BITOR, SLASHSLASH} /\ node.type = "Binary"
  THEN evalBinary(node, c, d)
  ELSE IF node.kind = MINUS /\ node.type = "Unary" THEN negateNode(node, c, d)
  ELSE IF node.kind \in {AND, OR} THEN evalAndOr(node, c, d)
  ELSE Throw("ConfigException", <<"Unable to evaluate">>, c)


\* instanceof ASTNode, of a value or a node
IsNode(v) == "type" \in DOMAIN v
IsDictWrapper(v) == ~IsNode(v) /\ v.t = "DictWrapper"
IsListWrapper(v) == ~IsNode(v) /\ v.t = "ListWrapper"
IsSlice(operand) == IsNode(operand) /\ operand.type = "Slice"

\* the operand of a step on a list of n elements, after `operand += n`
adjusted(operand, n) ==
  IF IsNum(operand) /\ operand.x10 < 0 /\ operand.x10 >= -10 * n
  THEN Num(operand.x10 + 10 * n) ELSE operand

\* the ListWrapper branch of the loop of Config.getFromPath
walkList(result, operand, c, d) ==
  IF ~IsSlice(operand) /\ IsNum(operand)
  THEN (IF ListInRange(result.data, adjusted(operand, Len(result.data)))
        THEN Ok(DataAt(result.data, adjusted(operand, Len(result.data)).x10), c)
        ELSE Throw("BadIndexException",
                   <<"index out of range: is",
                     NumToString(adjusted(operand, Len(result.data))),
                     "must be between 0 and", IntText(Len(result.data) - 1)>>, c))
  ELSE IF IsSlice(operand) THEN getSlice(result, operand, c, d)
  ELSE Throw("BadIndexException",
             <<"integer required, but found", toSourceOperand(operand)>>, c)

\* one turn of the loop of Config.getFromPath, up to the element it selects
walkStep(result, operand, c, d) ==
  IF IsSlice(operand) /\ ~IsListWrapper(result)
  THEN Throw("BadIndexException", <<"slices can only operate on lists">>, c)
  ELSE IF IsDictWrapper(result) /\ (IsSlice(operand) \/ ~IsStr(operand))
  THEN Throw("BadIndexException", <<"string required, but found">>, c)
  ELSE IF IsDictWrapper(result)
  THEN (IF ObjHas(result.data, operand.s) THEN Ok(ObjGet(result.data, operand.s), c)
        ELSE Throw("ConfigException", <<"Not found in configuration", operand.s>>, c))
  ELSE IF IsListWrapper(result) THEN walkList(result, operand, c, d)
  ELSE Throw("ConfigException", <<"Not found in configuration", <<"[object Object]">>>>, c)

\* the end of a turn: the reference check on the selected element v and its
\* evaluation
walkLook(v, c, d) ==
  IF IsNode(v) /\ v.kind = DOLLAR /\ v \in c.refsSeen
  THEN Throw("CircularReferenceException", CircularParts(c.refsSeen), c)
  ELSE IF IsNode(v)
  THEN evaluate(v, IF v.kind = DOLLAR THEN [c EXCEPT !.refsSeen = @ \cup {v}] ELSE c, d)
  ELSE Ok(v, c)

\* the loop of Config.getFromPath, from step i of the path on
walk(pi, i, result, c, d) ==
  IF i > Len(pi) THEN Ok(result, c)
  ELSE Then(walkStep(result, pi[i][2], c, d), LAMBDA st :
         Then(walkLook(st.v, st.c, d), LAMBDA e :
           walk(pi, i + 1, e.v, e.c, d)))

\* the steps of Config.getFromPath on the iterator pi
getFromSteps(pi, c, d) ==
  Then(baseGet(pi[1].value.s, MISSING, c, d), LAMBDA first :
    Then(walk(pi, 2, first.v, first.c, d), LAMBDA w :
      Ok(w.v, [w.c EXCEPT !.refsSeen = {}])))

\* a baseGet that would try the path before the root keys
BranchPathFirst(c, k) ==
  IF c.cache.on /\ ObjHas(c.cache.m, k) THEN "cache"
  ELSE IF c.data = Null THEN "nodata"
  ELSE IF ~isIdentifier(k) THEN "path"
  ELSE IF ObjHas(c.data.data, k) THEN "key"
  ELSE "identifier"

\* the branch of Config.baseGet a key takes
Branch(c, k) ==
  IF c.cache.on /\ ObjHas(c.cache.m, k) THEN "cache"
  ELSE IF c.data = Null THEN "nodata"
  ELSE IF ObjHas(c.data.data, k) THEN "key"
  ELSE IF isIdentifier(k) THEN "identifier"
  ELSE "path"

\* the errors of a path walk that the catch block of Config.baseGet throws
\* again whatever the default
RethrownNone(ex) == FALSE
Rethrown(ex) ==
  ex \in {"InvalidPathException", "BadIndexException", "CircularReferenceException"}

\* the walk of the path p, when the parse gave one
pathWalk(p, c, d) == IF ~p.ok THEN Throw(p.ex, p.msg, c) ELSE getFromPath(p.node, c, d)

\* the try block of Config.baseGet: parse the key as a path and walk it
pathGet(k, c, d) == pathWalk(parsePath(k), [c EXCEPT !.refsSeen = {}], d)

\* the catch block of Config.baseGet, on the outcome w of the try block
catch(w, k, dv) ==
  IF w.ok \/ w.ex = NoReturn THEN w
  ELSE IF Rethrown(w.ex) THEN w
  ELSE IF dv = MISSING
       THEN (IF IsConfigException(w.ex) THEN w
             ELSE Throw("ConfigException", <<"Not found in configuration", k>>, w.c))
  ELSE Ok(dv, w.c)

\* Config.baseGet below the test of the cache: the result before it is cached
lookup(b, k, dv, c, d) ==
  IF b = "key"
  THEN Then(evaluated(ObjGet(c.data.data, k), c, d), LAMBDA g : evaluated(g.v, g.c, d))
  ELSE IF b = "identifier"
  THEN (IF dv = MISSING
        THEN Throw("ConfigException", <<"Not found in configuration", k>>, c)
        ELSE Ok(dv, c))
  ELSE catch(pathGet(k, c, d), k, dv)

\* Config.baseGet
baseGetBody(k, dv, c, d) ==
  IF Branch(c, k) = "cache" THEN Ok(ObjGet(c.cache.m, k), c)
  ELSE IF Branch(c, k) = "nodata"
  THEN Throw("ConfigException", <<"No data in configuration">>, c)
  ELSE Then(lookup(Branch(c, k), k, dv, c, d), LAMBDA r :
         IF r.c.cache.on THEN Ok(r.v, [r.c EXCEPT !.cache.m = ObjPut(@, k, r.v)])
         ELSE r)

call(f, a) ==
  CASE f = "evaluate" -> evaluateBody(a[1], a[2], a[3])
    \* Config.getFromPath; a[3] counts the nested calls, and the call that
    \* would be number MaxDepth + 1 overflows the stack
    [] f = "getFromPath" ->
         IF a[3] >= MaxDepth
         THEN Throw("RangeError", <<"Maximum call stack size exceeded">>, a[2])
         ELSE getFromSteps(pathIterator(a[1]), a[2], a[3] + 1)
    [] f = "baseGet" -> baseGetBody(a[1], a[2], a[3], a[4])
    \* cfg.get(path) in defaultStringConverter
    [] f = "get" ->
         Then(baseGet(a[1], MISSING, a[2], a[3]), LAMBDA r : unwrap(r.v, r.c, a[3]))
    [] f = "interpolate" -> interpolate(a[1], a[2], a[3], a[4], a[5], a[6])
    \* unwrap
    [] f = "unwrap" ->
         IF a[1].t = "DictWrapper" THEN asDictLoop(a[1].data, 1, <<>>, a[2], a[3])
         ELSE IF a[1].t = "ListWrapper" THEN asListLoop(a[1].data, 1, <<>>, a[2], a[3])
         ELSE Ok(a[1], a[2])

\* Config.get
get(k, dv, c) == Then(baseGet(k, dv, c, 0), LAMBDA r : unwrap(r.v, r.c, 0))



\* Config.load on the node the parser returned
load(node, c) ==
  IF node.type # "Mapping"
  THEN Throw("ConfigException", <<"Root configuration must be a mapping">>, c)
  ELSE Then(wrapMapping(node, c), LAMBDA w :
         Ok(Undefined, [w.c EXCEPT !.data = w.v, !.cache.m = <<>>]))

\* Config.loadFile; reading a file that is not there fails in fs.readFileSync
loadFile(p, c) ==
  IF ~isReadable(p, c) THEN Throw("Error", <<"ENOENT">>, c)
  ELSE Then(load(ObjGet(c.files, p), c), LAMBDA r : Ok(Undefined, setPath(p, r.c)))

\* ------------------------------------------------------------------------
\* What a caller sees of a returned value: the plain value with every object
\* read through the heap (a mapping from keys to values, whatever the order)
\* ------------------------------------------------------------------------
RECURSIVE Snap(_, _)
Snap(v, heap) ==
  IF "type" \in DOMAIN v THEN [t |-> "node", node |-> v]
  ELSE IF v.t = "object"
  THEN LET o == heap[v.a] IN
       [t |-> o.kind, f |-> [k \in ObjKeys(o.p) |-> Snap(ObjGet(o.p, k), heap)]]
  ELSE IF v.t = "DictWrapper"
  THEN [t |-> "DictWrapper", f |-> [k \in ObjKeys(v.data) |-> Snap(ObjGet(v.data, k), heap)]]
  ELSE IF v.t = "ListWrapper"
  THEN [t |-> "ListWrapper", f |-> [j \in 1..Len(v.data) |-> Snap(v.data[j], heap)]]
  ELSE v

\* The heap without the objects nothing holds any more.  Only the cache
\* outlives a call, so only what it reaches is kept (addresses are renamed in
\* order).
RECURSIVE RefsOf(_)
RefsOfPairs(p) == UNION {RefsOf(p[i][2]) : i \in 1..Len(p)}
RefsOf(v) ==
  IF "type" \in DOMAIN v THEN {}
  ELSE IF v.t = "object" THEN {v.a}
  ELSE IF v.t = "DictWrapper" THEN RefsOfPairs(v.data)
  ELSE IF v.t = "ListWrapper" THEN UNION {RefsOf(v.data[j]) : j \in 1..Len(v.data)}
  ELSE {}

RECURSIVE Reach(_, _)
Reach(heap, R) ==
  LET more == R \cup UNION {RefsOfPairs(heap[a].p) : a \in R} IN
  IF more = R THEN R ELSE Reach(heap, more)

RECURSIVE Rename(_, _)
RenamePairs(p, R) == [i \in 1..Len(p) |-> <<p[i][1], Rename(p[i][2], R)>>]
Rename(v, R) ==
  IF "type" \in DOMAIN v THEN v
  ELSE IF v.t = "object" THEN ObjRef(Cardinality({b \in R : b <= v.a}))
  ELSE IF v.t = "DictWrapper" THEN DictWrapper(RenamePairs(v.data, R))
  ELSE IF v.t = "ListWrapper" THEN ListWrapper([j \in 1..Len(v.data) |-> Rename(v.data[j], R)])
  ELSE v

Collect(c) ==
  LET R == Reach(c.heap, RefsOfPairs(c.cache.m))
      live == [j \in 1..Cardinality(R) |->
                 CHOOSE a \in R : Cardinality({b \in R : b <= a}) = j]
  IN [c EXCEPT !.cache.m = RenamePairs(c.cache.m, R),
               !.heap = [j \in 1..Len(live) |->
                           [kind |-> c.heap[live[j]].kind,
                            p |-> RenamePairs(c.heap[live[j]].p, R)]]]


\* ------------------------------------------------------------------------
\* Documents, as the parser returns them (locations are <<line, column>>)
\* ------------------------------------------------------------------------
WKey(s, line, col) == Token(WORD, s, Str(s), <<line, col>>)
SKey(s, line, col) == Token(STRING_, <<"'">> \o s \o <<"'">>, Str(s), <<line, col>>)
SVal(s, line, col) == Token(STRING_, <<"'">> \o s \o <<"'">>, Str(s), <<line, col>>)
IVal(n, line, col) == Token(INTEGER, NumToString(IntV(n)), IntV(n), <<line, col>>)
NullVal(line, col) == Token(NONE, <<"n", "u", "l", "l">>, Null, <<line, col>>)
\* ${path}, as Parser.atom builds it
Ref(path, line, col) == UnaryNode(DOLLAR, parsePath(path).node, <<line, col>>)

\* 'f.g': 'h'
\* f: {g: 'z'}
\* l: ['a', 'b']
DocPaths ==
  MappingNode(<<
    <<SKey(<<"f", ".", "g">>, 1, 1), SVal(<<"h">>, 1, 8)>>,
    <<WKey(<<"f">>, 2, 1), MappingNode(<< <<WKey(<<"g">>, 2, 5), SVal(<<"z">>, 2, 8)>> >>)>>,
    <<WKey(<<"l">>, 3, 1), ListNode(<<SVal(<<"a">>, 3, 5), SVal(<<"b">>, 3, 10)>>)>>
  >>)

\* a: ${b}
\* b: ${a}
\* c: {a: ${c.b}, b: ${c.a}}
\* d: ['a', ${d[1]}]
DocCycles ==
  MappingNode(<<
    <<WKey(<<"a">>, 1, 1), Ref(<<"b">>, 1, 6)>>,
    <<WKey(<<"b">>, 2, 1), Ref(<<"a">>, 2, 6)>>,
    <<WKey(<<"c">>, 3, 1),
      MappingNode(<< <<WKey(<<"a">>, 3, 5), Ref(<<"c", ".", "b">>, 3, 10)>>,
                     <<WKey(<<"b">>, 3, 17), Ref(<<"c", ".", "a">>, 3, 22)>> >>)>>,
    <<WKey(<<"d">>, 4, 1),
      ListNode(<<SVal(<<"a">>, 4, 5), Ref(<<"d", "[", "1", "]">>, 4, 12)>>)>>
  >>)

\* m: {n: {p: 1}} + {q: 2}
\* n: ${m} + {n: {q: 3}}
DocMerges ==
  MappingNode(<<
    <<WKey(<<"m">>, 1, 1),
      BinaryNode(PLUS,
        MappingNode(<< <<WKey(<<"n">>, 1, 5),
                         MappingNode(<< <<WKey(<<"p">>, 1, 9), IVal(1, 1, 12)>> >>)>> >>),
        MappingNode(<< <<WKey(<<"q">>, 1, 19), IVal(2, 1, 22)>> >>))>>,
    <<WKey(<<"n">>, 2, 1),
      BinaryNode(PLUS,
        Ref(<<"m">>, 2, 6),
        MappingNode(<< <<WKey(<<"n">>, 2, 12),
                         MappingNode(<< <<WKey(<<"q">>, 2, 16), IVal(3, 2, 19)>> >>)>> >>))>>
  >>)

Docs == [paths |-> DocPaths, cycles |-> DocCycles, merges |-> DocMerges]

\* a: 1
\* b: {c: 2}
DocPlain ==
  MappingNode(<<
    <<WKey(<<"a">>, 1, 1), IVal(1, 1, 4)>>,
    <<WKey(<<"b">>, 2, 1), MappingNode(<< <<WKey(<<"c">>, 2, 5), IVal(2, 2, 8)>> >>)>>
  >>)

\* a: 1
\* b: 2
\* a: 3
DocRootDup ==
  MappingNode(<<
    <<WKey(<<"a">>, 1, 1), IVal(1, 1, 4)>>,
    <<WKey(<<"b">>, 2, 1), IVal(2, 2, 4)>>,
    <<WKey(<<"a">>, 3, 1), IVal(3, 3, 4)>>
  >>)

\* a: {b: 1, b: 2}
\* c: 4
DocNestedDup ==
  MappingNode(<<
    <<WKey(<<"a">>, 1, 1),
      MappingNode(<< <<WKey(<<"b">>, 1, 5), IVal(1, 1, 8)>>,
                     <<WKey(<<"b">>, 1, 11), IVal(2, 1, 14)>> >>)>>,
    <<WKey(<<"c">>, 2, 1), IVal(4, 2, 4)>>
  >>)

LoadDocs == [plain |-> DocPlain, rootdup |-> DocRootDup, nesteddup |-> DocNestedDup]

\* the keys and paths a caller asks each document for
Queries ==
  [paths |-> {<<"f", ".", "g">>, <<"f">>, <<"q">>, <<"f", ".", "q">>, <<"q", ".", "f">>,
              <<"l", "[", "2", "]">>, <<"l", "[", "0", "]">>, <<"f", ".">>},
   cycles |-> {<<"a">>, <<"b">>, <<"c", ".", "a">>, <<"c", ".", "b">>,
               <<"d", "[", "1", "]">>, <<"d", "[", "0", "]">>},
   merges |-> {<<"m">>, <<"n">>, <<"m", ".", "n">>},
   refs |-> {<<"p", ".", "q">>, <<"p">>, <<"r">>, <<"x">>},
   interp |-> {<<"g">>, <<"b">>, <<"n">>, <<"o">>},
   none |-> {<<"a">>},
   plain |-> {<<"a">>, <<"b">>},
   rootdup |-> {<<"a">>, <<"b">>},
   nesteddup |-> {<<"a">>, <<"c">>}]

Defaults == {MISSING, Str(<<"d">>)}

\* ------------------------------------------------------------------------
\* State
\* ------------------------------------------------------------------------
VARIABLES
  cfg,       \* the Config object
  doc,       \* the name of the document it was loaded from
  last,      \* the last call and its outcome
  firstRet,  \* for each key, what the first get of it that returned, returned
  nGets      \* the number of calls made

vars == <<cfg, doc, last, firstRet, nGets>>

NoCall == [op |-> "none"]

Init ==
  /\ doc \in DOMAIN Docs
  /\ \E cached \in BOOLEAN : cfg = load(Docs[doc], NewConfig(cached)).c
  /\ last = NoCall
  /\ firstRet = <<>>
  /\ nGets = 0

\* what the caller sees of cfg.get(k, dv): the branch baseGet takes, how the
\* walk w of the path ends when there is one, and the result r or its error
OutcomeOf(k, dv, branch, r, w) ==
  [op |-> "get", k |-> k, dv |-> dv, branch |-> branch,
   noDuplicates |-> cfg.noDuplicates,
   walk |-> IF branch # "path" THEN "none" ELSE IF w.ok THEN "ok" ELSE w.ex,
   ok |-> r.ok, ex |-> IF r.ok THEN "none" ELSE r.ex,
   msg |-> IF r.ok THEN <<>> ELSE r.msg,
   ret |-> IF r.ok THEN Snap(r.v, r.c.heap) ELSE Undefined]
Outcome(k, dv) ==
  OutcomeOf(k, dv, Branch(cfg, k), get(k, dv, cfg),
            IF Branch(cfg, k) = "path" THEN pathGet(k, cfg, 0) ELSE Ok(Undefined, cfg))

\* the Config after cfg.get(k, dv)
After(k, dv) == Collect(get(k, dv, cfg).c)

\* the first results, with the outcome o of a get of k added
Noted(o, k) ==
  IF o.ok /\ ~ObjHas(firstRet, k) THEN ObjPut(firstRet, k, o.ret) ELSE firstRet

\* the caller's cfg.get(k, dv)
Get(k, dv) ==
  /\ nGets < MaxGets
  /\ last' = Outcome(k, dv)
  /\ firstRet' = Noted(last', k)
  /\ cfg' = After(k, dv)
  /\ nGets' = nGets + 1
  /\ doc' = doc

Next == \E k \in Queries[doc], dv \in Defaults : Get(k, dv)

Spec == Init /\ [][Next]_vars

\* ------------------------------------------------------------------------
\* Properties of get
\* ------------------------------------------------------------------------
IsRootKey(k) == cfg.data # Null /\ ObjHas(cfg.data.data, k)
RootEntry(k) == ObjGet(cfg.data.data, k)
Called == last.op = "get"

C2_MissingIdentifier ==
  Called /\ isIdentifier(last.k) /\ ~IsRootKey(last.k) =>
    IF last.dv = MISSING
    THEN ~last.ok /\ last.ex = "ConfigException"
         /\ last.msg = <<"Not found in configuration", last.k>>
    ELSE last.ok /\ last.ret = last.dv

\* C3: a get of any entry on a cycle of references ends with a
\* CircularReferenceException, the two-entry cycle a: ${b}, b: ${a} included.
OnCycle ==
  {<<"a">>, <<"b">>, <<"c", ".", "a">>, <<"c", ".", "b">>, <<"d", "[", "1", "]">>}
C3_CyclesReported ==
  Called /\ doc = "cycles" /\ last.k \in OnCycle =>
    ~last.ok /\ last.ex = "CircularReferenceException"

\* C4: with caching on, a get of k returns what the first get of k returned,
\* whatever calls were made in between.
C4_CacheStable ==
  Called /\ cfg.cache.on /\ last.ok /\ ObjHas(firstRet, last.k) =>
    last.ret = ObjGet(firstRet, last.k)

\* C8: when the walk of a path fails, InvalidPathException,
\* BadIndexException and CircularReferenceException reach the caller whatever
\* the default; any other failure gives the default when there is one.
C8_DefaultOnFailedWalk ==
  Called /\ last.walk \notin {"none", "ok"} =>
    IF last.walk \in {"InvalidPathException", "BadIndexException",
                      "CircularReferenceException"}
    THEN ~last.ok /\ last.ex = last.walk
    ELSE last.dv # MISSING => last.ok /\ last.ret = last.dv

C8_Witness ==
  /\ Called /\ last.dv # MISSING
  /\ last.walk = "BadIndexException" /\ ~last.ok /\ last.ex = "BadIndexException"

\* ------------------------------------------------------------------------
\* Indices and slices of a list: the document l: [1, 2, ..., n]
\* ------------------------------------------------------------------------
ListDoc(n) ==
  MappingNode(<< <<WKey(<<"l">>, 1, 1),
                   ListNode([i \in 1..n |-> IVal(i, 1, 2 + 3 * i)])>> >>)

ListSize == Len(RootEntry(<<"l">>).elements)

\* a part of a slice: absent, or an integer
NoPart == [has |-> FALSE, v |-> 0]
Part(i) == [has |-> TRUE, v |-> i]
Parts == {NoPart} \cup {Part(i) : i \in -MaxIdx..MaxIdx}
PartText(p) == IF p.has THEN IntText(p.v) ELSE <<>>

\* the path texts l[i], l[start:stop], l[start:stop:step] and l[x]
IndexPath(i) == <<"l", "[">> \o IntText(i) \o <<"]">>
SlicePath(start, stop, step) ==
  <<"l", "[">> \o PartText(start) \o <<":">> \o PartText(stop)
    \o (IF step.has THEN <<":">> \o PartText(step) ELSE <<>>) \o <<"]">>
NonIntegers == {<<"1", ".", "5">>, <<"0", ".", "5">>, <<"'", "a", "'">>, <<"'", "1", "'">>}
OperandPath(x) == <<"l", "[">> \o x \o <<"]">>

\* Without a cache a Config keeps nothing from one call to the next, so each
\* list is asked one question
InitList ==
  /\ doc = "list"
  /\ \E n \in 0..MaxSize : cfg = load(ListDoc(n), NewConfig(FALSE)).c
  /\ last = NoCall
  /\ firstRet = <<>>
  /\ nGets = 0

\* cfg.get('l[i]')
GetIndex(i) ==
  /\ last = NoCall
  /\ last' = [op |-> "index", i |-> i] @@ Outcome(IndexPath(i), MISSING)
  /\ cfg' = After(IndexPath(i), MISSING)
  /\ UNCHANGED <<doc, firstRet, nGets>>

\* cfg.get('l[start:stop:step]')
GetSlice(start, stop, step) ==
  /\ last = NoCall
  /\ last' = [op |-> "slice", start |-> start, stop |-> stop, step |-> step]
               @@ Outcome(SlicePath(start, stop, step), MISSING)
  /\ cfg' = After(SlicePath(start, stop, step), MISSING)
  /\ UNCHANGED <<doc, firstRet, nGets>>

\* cfg.get('l[x]') for an operand x that is no integer
GetOperand(x) ==
  /\ last = NoCall
  /\ last' = [op |-> "operand", x |-> x] @@ Outcome(OperandPath(x), MISSING)
  /\ cfg' = After(OperandPath(x), MISSING)
  /\ UNCHANGED <<doc, firstRet, nGets>>

NextList ==
  \/ \E i \in -(MaxIdx + 1)..(MaxIdx + 1) : GetIndex(i)
  \/ \E start \in Parts, stop \in Parts, step \in Parts : GetSlice(start, stop, step)
  \/ \E x \in NonIntegers : GetOperand(x)

SpecList == InitList /\ [][NextList]_vars

\* the list a caller gets whose elements are those at the 0-based positions pos
ListOf(pos) == [t |-> "array", f |-> [k \in {NatToString(j - 1) : j \in 1..Len(pos)} |->
                  IntV(pos[CHOOSE j \in 1..Len(pos) : NatToString(j - 1) = k] + 1)]]

\* the positions Python's list[start:stop:step] reads on a list of size n
RECURSIVE PyRange(_, _, _, _)
PyRange(i, stop, step, acc) ==
  IF (IF step > 0 THEN i < stop ELSE i > stop)
  THEN PyRange(i + step, stop, step, Append(acc, i))
  ELSE acc
PyClamp(x, lo, hi) == IF x < lo THEN lo ELSE IF x > hi THEN hi ELSE x
PySlice(n, start, stop, step) ==
  LET s == IF step.has THEN step.v ELSE 1
      lo == IF s > 0 THEN 0 ELSE -1
      hi == IF s > 0 THEN n ELSE n - 1
      norm(p, dflt) == IF ~p.has THEN dflt
                       ELSE PyClamp(IF p.v < 0 THEN p.v + n ELSE p.v, lo, hi)
  IN PyRange(norm(start, IF s > 0 THEN 0 ELSE n - 1),
             norm(stop, IF s > 0 THEN n ELSE -1), s, <<>>)

\* C5: a slice of a list returns the elements Python's list[start:stop:step]
\* returns, in that order; a step of 0 fails with 'slice step cannot be zero'.
C5_SliceAsPython ==
  last.op = "slice" =>
    IF last.step.has /\ last.step.v = 0
    THEN ~last.ok /\ last.msg = <<"slice step cannot be zero">>
    ELSE last.ok /\ last.ret = ListOf(PySlice(ListSize, last.start, last.stop, last.step))

\* C6: an integer index i on a list of size n gives element i for 0 <= i < n
\* and element n + i for -n <= i < 0; any other integer fails with
\* BadIndexException 'index out of range: is i, must be between 0 and n-1'.
C6_IntegerIndex ==
  last.op = "index" =>
    LET i == last.i
        n == ListSize
    IN IF 0 <= i /\ i < n THEN last.ok /\ last.ret = IntV(i + 1)
       ELSE IF -n <= i /\ i < 0 THEN last.ok /\ last.ret = IntV(n + i + 1)
       ELSE /\ ~last.ok /\ last.ex = "BadIndexException"
            /\ last.msg = <<"index out of range: is", IntText(i),
                            "must be between 0 and", IntText(n - 1)>>

C6_Witness ==
  /\ last.op = "index" /\ ListSize = 3 /\ last.i = -3
  /\ last.ok /\ last.ret = IntV(1)

\* C7: an operand that is neither a slice nor an integer, applied to a list,
\* fails with BadIndexException 'integer required, but found x' and never
\* returns a value.
C7_IntegerRequired ==
  last.op = "operand" =>
    /\ ~last.ok /\ last.ex = "BadIndexException"
    /\ last.msg[1] = "integer required, but found"

\* ------------------------------------------------------------------------
\* Loading documents with duplicate keys
\* ------------------------------------------------------------------------
InitLoad ==
  /\ doc = "none"
  /\ \E cached \in BOOLEAN : cfg = NewConfig(cached)
  /\ last = NoCall
  /\ firstRet = <<>>
  /\ nGets = 0

\* cfg.noDuplicates = b
SetNoDuplicates(b) ==
  /\ cfg' = [cfg EXCEPT !.noDuplicates = b]
  /\ UNCHANGED <<doc, last, firstRet, nGets>>

\* cfg.load of the document named d
LoadOutcome(d, r) ==
  [op |-> "load", d |-> d, noDuplicates |-> cfg.noDuplicates,
   ok |-> r.ok, ex |-> IF r.ok THEN "none" ELSE r.ex,
   msg |-> IF r.ok THEN <<>> ELSE r.msg, before |-> cfg.data]
Load(d) ==
  /\ cfg' = load(LoadDocs[d], cfg).c
  /\ doc' = IF load(LoadDocs[d], cfg).ok THEN d ELSE doc
  /\ firstRet' = IF load(LoadDocs[d], cfg).ok THEN <<>> ELSE firstRet
  /\ last' = LoadOutcome(d, load(LoadDocs[d], cfg))
  /\ nGets' = nGets

NextLoad ==
  \/ \E b \in BOOLEAN : SetNoDuplicates(b)
  \/ \E d \in DOMAIN LoadDocs : Load(d)
  \/ \E k \in Queries[doc], dv \in Defaults : Get(k, dv)

SpecLoad == InitLoad /\ [][NextLoad]_vars

\* the keys of the elements of a mapping, and for a mapping with a key that
\* appears twice the place of the first second occurrence and of the
\* occurrence before it
KeyAt(elements, i) == elements[i][1].value.s
HasDuplicate(elements) ==
  \E i, j \in 1..Len(elements) : i < j /\ KeyAt(elements, i) = KeyAt(elements, j)
SecondAt(elements) ==
  CHOOSE j \in 1..Len(elements) :
    /\ \E i \in 1..(j - 1) : KeyAt(elements, i) = KeyAt(elements, j)
    /\ \A m \in 1..(j - 1) : ~\E i \in 1..(m - 1) : KeyAt(elements, i) = KeyAt(elements, m)
FirstAt(elements) ==
  CHOOSE i \in 1..Len(elements) :
    /\ KeyAt(elements, i) = KeyAt(elements, SecondAt(elements))
    /\ \A m \in 1..(i - 1) : KeyAt(elements, m) # KeyAt(elements, i)
DuplicateMessage(elements) ==
  <<"Duplicate key", KeyAt(elements, SecondAt(elements)),
    elements[SecondAt(elements)][1].start, elements[FirstAt(elements)][1].start>>
\* every key of the wrapped mapping has the value of its last occurrence
LastWins(elements, data) ==
  \A i \in 1..Len(elements) :
    (\A j \in (i + 1)..Len(elements) : KeyAt(elements, j) # KeyAt(elements, i)) =>
      /\ ObjHas(data, KeyAt(elements, i))
      /\ ObjGet(data, KeyAt(elements, i)) = elements[i][2]

MapOf(pairs) == MappingNode(pairs)
MergeValues ==
  {IVal(1, 1, 1), NullVal(1, 1), ListNode(<<IVal(1, 1, 1), IVal(2, 1, 1)>>),
   ListNode(<<IVal(3, 1, 1)>>),
   MapOf(<< <<WKey(<<"p">>, 1, 1), IVal(1, 1, 1)>> >>),
   MapOf(<< <<WKey(<<"p">>, 1, 1), IVal(2, 1, 1)>>, <<WKey(<<"q">>, 1, 1), IVal(3, 1, 1)>> >>)}
MergeSides ==
  {MapOf(<<>>)}
    \cup {MapOf(<< <<WKey(<<"a">>, 1, 1), v>> >>) : v \in MergeValues}
    \cup {MapOf(<< <<WKey(<<"a">>, 1, 1), v>>, <<WKey(<<"b">>, 1, 1), IVal(4, 1, 1)>> >>) :
            v \in MergeValues}
MergeDoc(L, R) ==
  MappingNode(<< <<WKey(<<"m">>, 1, 1), BinaryNode(PLUS, L, R)>>,
                 <<WKey(<<"n">>, 2, 1), BinaryNode(BITOR, L, R)>> >>)

InitMerge ==
  /\ doc = "merge"
  /\ \E L \in MergeSides, R \in MergeSides : cfg = load(MergeDoc(L, R), NewConfig(FALSE)).c
  /\ last = NoCall
  /\ firstRet = <<>>
  /\ nGets = 0

\* cfg.get('m') or cfg.get('n') on a Config just loaded
GetMerge(k) ==
  /\ last = NoCall
  /\ last' = [op |-> "merge"] @@ Outcome(k, MISSING)
  /\ cfg' = After(k, MISSING)
  /\ UNCHANGED <<doc, firstRet, nGets>>

NextMerge == \E k \in {<<"m">>, <<"n">>} : GetMerge(k)

SpecMerge == InitMerge /\ [][NextMerge]_vars

\* the plain value of a literal
RECURSIVE Plain(_)
Plain(node) ==
  IF node.type = "Token" THEN node.value
  ELSE IF node.type = "List"
  THEN [t |-> "array", f |-> [k \in {NatToString(j - 1) : j \in 1..Len(node.elements)} |->
          Plain(node.elements[CHOOSE j \in 1..Len(node.elements) : NatToString(j - 1) = k])]]
  ELSE [t |-> "dict", f |-> [k \in {KeyAt(node.elements, i) : i \in 1..Len(node.elements)} |->
          Plain(node.elements[CHOOSE i \in 1..Len(node.elements) :
                                KeyAt(node.elements, i) = k][2])]]

\* the merge of two plain mappings: the union of the keys, mappings on both
\* sides merged, the right side's value otherwise
RECURSIVE Merged(_, _)
Merged(l, r) ==
  [t |-> "dict",
   f |-> [k \in DOMAIN l.f \cup DOMAIN r.f |->
            IF k \notin DOMAIN r.f THEN l.f[k]
            ELSE IF k \notin DOMAIN l.f THEN r.f[k]
            ELSE IF l.f[k].t = "dict" /\ r.f[k].t = "dict" THEN Merged(l.f[k], r.f[k])
            ELSE r.f[k]]]

\* C10: L + R and L | R of two mappings is the mapping over the union of the
\* keys in which a key of both sides has the merge of the two values when both
\* are mappings and the value of R otherwise.
C10_MergeRightWins ==
  last.op = "merge" =>
    /\ last.ok
    /\ last.ret = Merged(Plain(RootEntry(last.k).left), Plain(RootEntry(last.k).right))

\* ------------------------------------------------------------------------
\* Expressions: the document v: <expression>, asked for v
\* ------------------------------------------------------------------------
FVal(x10, line, col) == Token(FLOAT, NumToString(Num(x10)), Num(x10), <<line, col>>)
BoolVal(b, line, col) ==
  Token(IF b THEN TRUE_ ELSE FALSE_, IF b THEN <<"t", "r", "u", "e">> ELSE <<"f", "a", "l", "s", "e">>,
        Bool(b), <<line, col>>)

\* the operands of a division: integers, and two values that are no integers
Dividends == {IVal(a, 1, 4) : a \in -MaxNum..MaxNum} \cup {FVal(15, 1, 4), SVal(<<"a">>, 1, 4)}
Divisors == {IVal(b, 1, 9) : b \in (-3..3) \ {0}} \cup {FVal(15, 1, 9)}
Divisions == {BinaryNode(SLASHSLASH, a, b) : a \in Dividends, b \in Divisors}

\* literals, by truthiness
FalsyLits == {IVal(0, 1, 4), SVal(<<>>, 1, 4), NullVal(1, 4), BoolVal(FALSE, 1, 4)}
TruthyLits == {IVal(1, 1, 4), IVal(-2, 1, 4), SVal(<<"a">>, 1, 4), BoolVal(TRUE, 1, 4)}
Lits == FalsyLits \cup TruthyLits
\* operands whose evaluation fails: an unknown variable, a reference to a
\* key that is missing
Failing == {WKey(<<"q">>, 1, 4), Ref(<<"q">>, 1, 4)}
FailureOf(e) ==
  IF e.type = "Token" THEN <<"Unknown variable", <<"q">>>>
  ELSE <<"Not found in configuration", <<"q">>>>

\* Parser.unaryExpr and Parser.notExpr: a unary node over a literal
Unaries == {UnaryNode(k, x, <<1, 4>>) : k \in {NOT, MINUS, PLUS, TILDE}, x \in Lits}
\* Parser.andExpr and Parser.expr: x and y, x or y
Logicals == {BinaryNode(k, x, y) : k \in {AND, OR}, x \in Lits \cup Failing, y \in Lits \cup Failing}

Exprs == Divisions \cup Unaries \cup Logicals
ExprDoc(e) == MappingNode(<< <<WKey(<<"v">>, 1, 1), e>> >>)

InitExpr ==
  /\ doc = "expr"
  /\ \E e \in Exprs : cfg = load(ExprDoc(e), NewConfig(FALSE)).c
  /\ last = NoCall
  /\ firstRet = <<>>
  /\ nGets = 0

\* cfg.get('v') on a Config just loaded
GetExpr ==
  /\ last = NoCall
  /\ last' = [op |-> "expr"] @@ Outcome(<<"v">>, MISSING)
  /\ cfg' = After(<<"v">>, MISSING)
  /\ UNCHANGED <<doc, firstRet, nGets>>

NextExpr == GetExpr

SpecExpr == InitExpr /\ [][NextExpr]_vars

\* the expression of the document
Expr == RootEntry(<<"v">>)
Evaluated == last.op = "expr"

\* floor(a / b) for integers a and b, b not 0
FloorDiv(a, b) ==
  CHOOSE q \in -(MaxNum + 1)..(MaxNum + 1) :
    IF b > 0 THEN q * b <= a /\ a < (q + 1) * b ELSE q * b >= a /\ a > (q + 1) * b

\* C11: for integers a and b, b not 0, a // b is floor(a / b), also when one
\* of them is negative; with an operand that is no integer it fails with a
\* ConfigException.
C11_FloorDivision ==
  Evaluated /\ Expr.kind = SLASHSLASH =>
    IF Expr.left.kind = INTEGER /\ Expr.right.kind = INTEGER
    THEN last.ok /\ last.ret = IntV(FloorDiv(Expr.left.value.x10 \div 10,
                                             Expr.right.value.x10 \div 10))
    ELSE ~last.ok /\ last.ex = "ConfigException"

\* C12: not x is the negation of the truthiness of x, -x the negation of a
\* number, +x the value of x, ~x the complement of an integer; none of them
\* fails on such an operand.
C12_UnaryOperators ==
  Evaluated /\ Expr.type = "Unary" =>
    CASE Expr.kind = NOT -> last.ok /\ last.ret = Bool(Expr.operand \in FalsyLits)
      [] Expr.kind = MINUS /\ Expr.operand.kind = INTEGER ->
           last.ok /\ last.ret = Num(-Expr.operand.value.x10)
      [] Expr.kind = PLUS -> last.ok /\ last.ret = Expr.operand.value
      [] Expr.kind = TILDE /\ Expr.operand.kind = INTEGER ->
           last.ok /\ last.ret = IntV(-(Expr.operand.value.x10 \div 10) - 1)
      [] OTHER -> TRUE

\* what x and y / x or y gives when the left operand decides
Decides(kind, x) == IF kind = AND THEN x \in FalsyLits ELSE x \in TruthyLits

\* C13: x and y / x or y evaluates x first, leaves y alone when x decides
\* (an error of y is then not raised), and gives a boolean.
C13_ShortCircuit ==
  Evaluated /\ Expr.type = "Binary" /\ Expr.kind \in {AND, OR} =>
    IF Expr.left \in Failing
    THEN ~last.ok /\ last.msg = FailureOf(Expr.left)
    ELSE IF Decides(Expr.kind, Expr.left)
    THEN last.ok /\ last.ret = Bool(Expr.kind = OR)
    ELSE IF Expr.right \in Failing
    THEN ~last.ok /\ last.msg = FailureOf(Expr.right)
    ELSE last.ok /\ last.ret = Bool(Expr.right \in TruthyLits)

C13_Witness ==
  /\ Evaluated /\ Expr.kind = AND
  /\ Expr.left \in FalsyLits /\ Expr.right \in Failing
  /\ last.ok /\ last.ret = Bool(FALSE)

\* ------------------------------------------------------------------------
\* Options of the constructor: new Config(stream, options) on the document
\*   a: n
\*   b: m
\* ------------------------------------------------------------------------
DocOpts ==
  MappingNode(<< <<WKey(<<"a">>, 1, 1), WKey(<<"n">>, 1, 4)>>,
                 <<WKey(<<"b">>, 2, 1), WKey(<<"m">>, 2, 4)>> >>)
Contexts == {<<>>, << <<<<"n">>, Str(<<"x">>)>> >>}
OptionSets ==
  [noDuplicates : BOOLEAN, strictConversions : BOOLEAN, includePath : {<<>>, <<"inc">>},
   context : Contexts, cached : BOOLEAN]

\* doc holds the options the Config was made with, and whether the caller
\* has assigned cfg.context since
InitOpts ==
  /\ \E o \in OptionSets :
       /\ doc = [options |-> o, assigned |-> FALSE]
       /\ cfg = load(DocOpts, Constructor(o)).c
  /\ last = NoCall
  /\ firstRet = <<>>
  /\ nGets = 0

\* cfg.context = ctx
SetContext(ctx) ==
  /\ cfg' = [cfg EXCEPT !.context = ctx]
  /\ doc' = [doc EXCEPT !.assigned = TRUE]
  /\ UNCHANGED <<last, firstRet, nGets>>

NextOpts ==
  \/ \E k \in {<<"a">>, <<"b">>} : Get(k, MISSING)
  \/ \E ctx \in Contexts : SetContext(ctx)

SpecOpts == InitOpts /\ [][NextOpts]_vars

\* the name the entry k of the document stands for
NameOf(k) == RootEntry(k).value.s

\* C14: every option given to the constructor takes effect: the Config has
\* the option's value, and a get of an entry that is a name gives the value
\* the context option binds the name to, or fails with 'Unknown variable'
\* when it binds none.
C14_OptionsTakeEffect ==
  ~doc.assigned =>
    /\ cfg.noDuplicates = doc.options.noDuplicates
    /\ cfg.strictConversions = doc.options.strictConversions
    /\ cfg.includePath = doc.options.includePath
    /\ cfg.cache.on = doc.options.cached
    /\ Called =>
         IF ObjHas(doc.options.context, NameOf(last.k))
         THEN last.ok /\ last.ret = ObjGet(doc.options.context, NameOf(last.k))
         ELSE ~last.ok /\ last.msg = <<"Unknown variable", NameOf(last.k)>>

\* ------------------------------------------------------------------------
\* Backtick strings that name an environment variable: the document
\* v: `text`, asked for v, in a process with the environment env
\* ------------------------------------------------------------------------
\* the token of a backtick string; its text stands without the two delimiters
BVal(s, line, col) == Token(BACKTICK, s, Str(s), <<line, col>>)

\* $NAME and $NAME|default
EnvRefs == [name : {<<"p">>, <<"q">>, <<"p", "_", "1">>}, pipe : BOOLEAN, dflt : {<<>>, <<"d">>, <<"$", "p">>}]
EnvRefText(r) == <<"$">> \o r.name \o (IF r.pipe THEN <<"|">> \o r.dflt ELSE <<>>)
\* texts that are no reference to a variable
OtherTexts == {<<"$">>, <<"$", "|", "d">>, <<"$", "p", " ", "q">>}
ConvTexts == {EnvRefText(r) : r \in EnvRefs} \cup OtherTexts
\* the environments: p is absent, empty or z; q is absent or d
Envs ==
  {pe \o qe : pe \in {<<>>, << <<<<"p">>, <<>>>> >>, << <<<<"p">>, <<"z">>>> >>},
              qe \in {<<>>, << <<<<"q">>, <<"d">>>> >>}}
ConvDoc(t) == MappingNode(<< <<WKey(<<"v">>, 1, 1), BVal(t, 1, 4)>> >>)

InitConv ==
  /\ doc = "conv"
  /\ \E t \in ConvTexts, e \in Envs, strict \in BOOLEAN :
       cfg = load(ConvDoc(t),
                  [Constructor([defaults EXCEPT !.strictConversions = strict])
                     EXCEPT !.env = e]).c
  /\ last = NoCall
  /\ firstRet = <<>>
  /\ nGets = 0

\* cfg.get('v') on a Config just loaded
GetConv ==
  /\ last = NoCall
  /\ last' = [op |-> "conv"] @@ Outcome(<<"v">>, MISSING)
  /\ cfg' = After(<<"v">>, MISSING)
  /\ UNCHANGED <<doc, firstRet, nGets>>

NextConv == GetConv

SpecConv == InitConv /\ [][NextConv]_vars

\* C15: `$NAME` and `$NAME|default` give the value of the variable NAME
\* whenever the environment has it, the empty value included; without it
\* they give the text after the pipe, or null when there is no pipe.
C15_EnvironmentLookup ==
  last.op = "conv" =>
    \A r \in EnvRefs :
      EnvRefText(r) = RootEntry(<<"v">>).value.s =>
        /\ last.ok
        /\ last.ret = IF ObjHas(cfg.env, r.name) THEN Str(ObjGet(cfg.env, r.name))
                      ELSE IF r.pipe THEN Str(r.dflt) ELSE Null

\* ------------------------------------------------------------------------
\* Includes: the document v: @ 'fn', loaded from the file /r/m or from a
\* stream, in a file system where some of the files named f are readable
\* ------------------------------------------------------------------------
MainPath == <<"/", "r", "/", "m">>
RelName == <<"f">>
AbsName == <<"/", "x", "/", "f">>
IncludeDirs == {<<"/", "p">>, <<"/", "q">>}
IncludePaths == {<<>>, << <<"/", "p">> >>, << <<"/", "p">>, <<"/", "q">> >>,
                 << <<"/", "q">>, <<"/", "p">> >>}
\* every file an include can reach, with what it holds: a mapping that tells
\* the files apart, and a list in /q/f
OtherFiles ==
  << <<<<"/", "r", "/", "f">>, MappingNode(<< <<WKey(<<"w">>, 1, 1), SVal(<<"r">>, 1, 4)>> >>)>>,
     <<<<"/", "p", "/", "f">>, MappingNode(<< <<WKey(<<"w">>, 1, 1), SVal(<<"p">>, 1, 4)>> >>)>>,
     <<<<"/", "q", "/", "f">>, ListNode(<<IVal(1, 1, 2)>>)>>,
     <<AbsName, MappingNode(<< <<WKey(<<"w">>, 1, 1), SVal(<<"x">>, 1, 4)>> >>)>> >>
AtDoc(fn) == MappingNode(<< <<WKey(<<"v">>, 1, 1), UnaryNode(AT, SVal(fn, 1, 6), <<1, 4>>)>> >>)
\* the file system where the files numbered in S are readable, next to the
\* main document
FilesOf(fn, S) ==
  << <<MainPath, AtDoc(fn)>> >> \o SelectSeq(OtherFiles, LAMBDA e : \E i \in S : OtherFiles[i] = e)

\* new Config(path, options) or new Config(stream, options), then the
\* assignment of a context
InitAt ==
  /\ doc = "at"
  /\ \E fn \in {RelName, AbsName}, S \in SUBSET (1..4), ip \in IncludePaths,
        fromFile \in BOOLEAN, nd \in BOOLEAN, strict \in BOOLEAN, ctx \in Contexts :
       LET c0 == [Constructor([defaults EXCEPT !.noDuplicates = nd,
                                               !.strictConversions = strict,
                                               !.includePath = ip])
                    EXCEPT !.files = FilesOf(fn, S)]
       IN cfg = [(IF fromFile THEN loadFile(MainPath, c0).c ELSE load(AtDoc(fn), c0).c)
                   EXCEPT !.context = ctx]
  /\ last = NoCall
  /\ firstRet = <<>>
  /\ nGets = 0

\* cfg.get('v') on a Config just loaded
GetAt ==
  /\ last = NoCall
  /\ last' = [op |-> "at"] @@ Outcome(<<"v">>, MISSING)
  /\ cfg' = After(<<"v">>, MISSING)
  /\ UNCHANGED <<doc, firstRet, nGets>>

NextAt == GetAt

SpecAt == InitAt /\ [][NextAt]_vars

\* the directories a relative name is looked up in: the directory of the
\* including document, when it has one, then the include path
SearchDirs == (IF cfg.rootDir = Null THEN <<>> ELSE <<cfg.rootDir>>) \o cfg.includePath
Candidates(fn) ==
  IF isAbsolute(fn) THEN <<fn>> ELSE [i \in 1..Len(SearchDirs) |-> join(SearchDirs[i], fn)]
Readable(fn) == {i \in 1..Len(Candidates(fn)) : ObjHas(cfg.files, Candidates(fn)[i])}
FirstReadable(fn) ==
  Candidates(fn)[CHOOSE i \in Readable(fn) : \A j \in Readable(fn) : i <= j]
\* the Config that wraps the mapping of the file p
Wraps(v, p) ==
  /\ v.t = "Config"
  /\ v.cfg.path = p
  /\ v.cfg.data = wrapMapping(ObjGet(cfg.files, p), cfg).v
  /\ v.cfg.noDuplicates = cfg.noDuplicates
  /\ v.cfg.strictConversions = cfg.strictConversions
  /\ v.cfg.context = cfg.context
  /\ v.cfg.includePath = cfg.includePath

\* C16: @ 'fn' loads fn itself when fn is absolute, and otherwise the first
\* readable of fn in the including document's directory and in the entries of
\* includePath in their order; without a readable candidate it fails with
\* 'unable to locate fn'.  A mapping comes back as a Config with the four
\* inherited options, and the list of /q/f as a list.
C16_Include ==
  last.op = "at" =>
    LET fn == RootEntry(<<"v">>).operand.value.s
    IN IF Readable(fn) = {}
       THEN ~last.ok /\ last.ex = "ConfigException" /\ last.msg = <<"unable to locate", fn>>
       ELSE /\ last.ok
            /\ IF ObjGet(cfg.files, FirstReadable(fn)).type = "Mapping"
               THEN Wraps(last.ret, FirstReadable(fn))
               ELSE last.ret.t = "array"

\* ------------------------------------------------------------------------
\* Paths and their source: a text is parsed, the node is turned back into
\* text, and that text is parsed again
\* ------------------------------------------------------------------------
MaxTrailers == 2   \* trailers after the first word of a path text
Trailers ==
  {<<>>,
   <<".", "b">>,
   <<"[", "1", "]">>,
   <<"[", "-", "1", "]">>,
   <<"[", "1", ".", "5", "]">>,
   <<"[", "'", "1", "'", "]">>,
   <<"[", "'", "b", "'", "]">>,
   <<"[", "b", "]">>,
   <<"[", ":", ":", "2", "]">>,
   <<"[", ":", "]">>,
   <<"[", ":", "2", "]">>,
   <<"[", "2", ":", "]">>,
   <<"[", ":", ":", "-", "1", "]">>,
   <<"[", "1", ":", "2", "]">>,
   <<"[", "1", ":", "2", ":", "3", "]">>,
   <<"[", "b", ".", "c", "]">>,
   <<"[", " ", "1", " ", "]">>,
   <<"[", ":", " ", "2", "]">>,
   <<"[">>,
   <<".", "1">>}
RECURSIVE PathTextsOf(_)
PathTextsOf(n) ==
  IF n = 0 THEN {<<"f", "o", "o">>}
  ELSE {t \o tr : t \in PathTextsOf(n - 1), tr \in Trailers}
PathTexts == PathTextsOf(MaxTrailers)

InitPath ==
  /\ doc \in PathTexts
  /\ cfg = NoCall
  /\ last = NoCall
  /\ firstRet = <<>>
  /\ nGets = 0

\* node = parsePath(s)
ParsePath ==
  /\ cfg = NoCall
  /\ cfg' = [op |-> "parsePath"] @@ parsePath(doc)
  /\ UNCHANGED <<doc, last, firstRet, nGets>>

\* src = toSource(node)
ToSource ==
  /\ cfg # NoCall /\ cfg.ok /\ last = NoCall
  /\ last' = IF toSourceThrows(cfg.node) THEN [op |-> "toSource", ok |-> FALSE, ex |-> "TypeError"]
             ELSE [op |-> "toSource", ok |-> TRUE, src |-> toSource(cfg.node)]
  /\ UNCHANGED <<doc, cfg, firstRet, nGets>>

\* parsePath(src)
ParseSource ==
  /\ last.op = "toSource" /\ last.ok
  /\ last' = [op |-> "parseSource", src |-> last.src, again |-> parsePath(last.src)]
  /\ UNCHANGED <<doc, cfg, firstRet, nGets>>

NextPath == ParsePath \/ ToSource \/ ParseSource

SpecPath == InitPath /\ [][NextPath]_vars

\* the steps of a path without the places of their tokens: the first word,
\* then the operator of each step with its operand (for a slice its three
\* parts)
RECURSIVE StepsOf(_)
PartOf(n) == IF n = NoNode THEN <<>> ELSE <<StepsOf(n)>>
StepsOf(node) ==
  IF node.type = "Token" THEN <<node.value>>
  ELSE [i \in 1..Len(pathIterator(node)) |->
          IF i = 1 THEN pathIterator(node)[1].value
          ELSE IF pathIterator(node)[i][1] # COLON THEN pathIterator(node)[i]
          ELSE <<COLON, PartOf(pathIterator(node)[i][2].startIndex),
                 PartOf(pathIterator(node)[i][2].stopIndex),
                 PartOf(pathIterator(node)[i][2].step)>>]
SliceExamples == {<<"f", "o", "o", "[", ":", ":", "2", "]">>, <<"f", "o", "o", "[", ":", "]">>, <<"f", "o", "o", "[", ":", "2", "]">>, <<"f", "o", "o", "[", "2", ":", "]">>, <<"f", "o", "o", "[", ":", ":", "-", "1", "]">>}

\* C17: the source of every path parsePath accepts is accepted by parsePath
\* and has the same steps; the five slices foo[::2], foo[:], foo[:2],
\* foo[2:] and foo[::-1] come back as they were written.
C17_SourceRoundTrip ==
  /\ last.op = "toSource" => last.ok /\ (doc \in SliceExamples => last.src = doc)
  /\ last.op = "parseSource" =>
       last.again.ok /\ StepsOf(last.again.node) = StepsOf(cfg.node)

\* ------------------------------------------------------------------------
\* Mappings and their keys: the text of a mapping, with or without braces,
\* whose entries have a key of one of several kinds and the value 1
\* ------------------------------------------------------------------------
MaxEntries == 2   \* entries of a mapping text
\* a word, a string and two strings that are concatenated
GoodKeys == {<<"a">>, <<"'", "b", "'">>, <<"'", "b", "'", " ", "'", "c", "'">>}
\* a whole number and the tokens [ and $
OtherKeys == {<<"1">>, <<"[">>, <<"$">>}
RECURSIVE KeySeqs(_)
KeySeqs(n) ==
  IF n = 0 THEN {<<>>}
  ELSE KeySeqs(n - 1) \cup {Append(ks, k) : ks \in KeySeqs(n - 1), k \in GoodKeys \cup OtherKeys}
MapInputs == [braced : BOOLEAN, keys : KeySeqs(MaxEntries) \ {<<>>}]
RECURSIVE EntriesText(_)
EntriesText(ks) ==
  IF Len(ks) = 0 THEN <<>>
  ELSE (IF Len(ks) = 1 THEN <<>> ELSE EntriesText(SubSeq(ks, 1, Len(ks) - 1)) \o <<",", " ">>)
       \o ks[Len(ks)] \o <<":", " ", "1">>
MapText(in) ==
  IF in.braced THEN <<"{">> \o EntriesText(in.keys) \o <<"}">> ELSE EntriesText(in.keys)

InitParse ==
  /\ doc \in {MapText(in) : in \in MapInputs}
  /\ cfg = NoCall
  /\ last = NoCall
  /\ firstRet = <<>>
  /\ nGets = 0

\* makeParser(text).container()
ParseContainer ==
  /\ last = NoCall
  /\ last' = [op |-> "container"] @@ Container(doc)
  /\ UNCHANGED <<doc, cfg, firstRet, nGets>>

NextParse == ParseContainer

SpecParse == InitParse /\ [][NextParse]_vars

\* C18: the keys of an accepted mapping are WORD or STRING tokens, and a text
\* with a token of another kind in the place of a key, first or later, with
\* or without braces, is rejected with a ParserException.
C18_KeysAreWordsOrStrings ==
  last.op = "container" =>
    /\ (last.ok /\ last.node.type = "Mapping") =>
         \A i \in 1..Len(last.node.elements) :
           last.node.elements[i][1].kind \in {WORD, STRING_}
    /\ \A in \in MapInputs :
         (MapText(in) = doc /\ \E i \in 1..Len(in.keys) : in.keys[i] \in OtherKeys) =>
           ~last.ok /\ last.ex = "ParserException"

\* ------------------------------------------------------------------------
\* Numeric literals: the first token of a text that starts with a digit
\* ------------------------------------------------------------------------
MaxLen == 4   \* characters of a literal after its first digit or its 1e
NumChars == {"0", "1", "8", "_", ".", "e", "-", "x"}
RECURSIVE Texts(_, _)
Texts(chars, n) ==
  IF n = 0 THEN {<<>>} ELSE Texts(chars, n - 1) \cup {Append(t, ch) : t \in Texts(chars, n - 1), ch \in chars}
\* a digit and up to MaxLen - 1 characters, and the start of an exponent with
\* up to MaxLen characters of it
NumTexts ==
  {<<d>> \o t : d \in {"0", "1", "8"}, t \in Texts(NumChars, MaxLen - 1)}
  \cup {<<"1", "e">> \o t : t \in Texts({"1", "_", "-"}, MaxLen)}

InitNum ==
  /\ doc \in NumTexts
  /\ cfg = NoCall
  /\ last = NoCall
  /\ firstRet = <<>>
  /\ nGets = 0

\* makeTokenizer(text).getToken()
GetToken ==
  /\ last = NoCall
  /\ last' = [op |-> "getToken", token |-> getToken(doc, 1)]
  /\ UNCHANGED <<doc, cfg, firstRet, nGets>>

NextNum == GetToken

SpecNum == InitNum /\ [][NextNum]_vars

\* the text is one numeric literal: its first token is a number that takes
\* all of it
IsLiteral(t) ==
  /\ ~IsTokError(getToken(t, 1))
  /\ getToken(t, 1).kind \in {INTEGER, FLOAT}
  /\ getToken(t, 1).nxt = Len(t) + 1
\* the underscore at place i of t stands between two digits (of a
\* hexadecimal literal, hexadecimal digits)
BetweenDigits(t, i) ==
  /\ 1 < i /\ i < Len(t)
  /\ \A j \in {i - 1, i + 1} :
       is_digit(t[j]) \/ (Len(t) >= 2 /\ t[2] = "x" /\ j > 2 /\ is_hex_digit(t[j]))
Misplaced(t) == \E i \in 1..Len(t) : t[i] = "_" /\ ~BetweenDigits(t, i)

\* C19: every underscore of an accepted numeric literal stands directly
\* between two digits, and a literal with an underscore anywhere else (at its
\* end, next to another underscore, to '.', 'e', '-' or a radix prefix) fails
\* with TokenizerException "Invalid '_' in number" or "Invalid '_' at end of
\* number".
C19_UnderscoreBetweenDigits ==
  last.op = "getToken" =>
    /\ (~IsTokError(last.token) /\ last.token.kind \in {INTEGER, FLOAT}) =>
         ~Misplaced(last.token.text)
    /\ (IsLiteral(Stripped(doc)) /\ Misplaced(doc)) =>
         /\ IsTokError(last.token)
         /\ last.token.msg[1] \in {"Invalid '_' in number", "Invalid '_' at end of number"}

\* the base-8 value of a run of digits
RECURSIVE Octal(_)
Octal(t) == IF t = <<>> THEN 0 ELSE 8 * Octal(SubSeq(t, 1, Len(t) - 1)) + DigitVal(t[Len(t)])

\* C20: a literal of digits that starts with 0 has the base-8 value of its
\* digits, and with a digit 8 or 9 in it tokenization fails with
\* TokenizerException 'Invalid character in number' at the start of the
\* literal.
C20_LeadingZeroIsOctal ==
  (last.op = "getToken" /\ doc[1] = "0" /\ \A i \in 1..Len(doc) : is_digit(doc[i])) =>
    IF \E i \in 1..Len(doc) : doc[i] \in {"8", "9"}
    THEN /\ IsTokError(last.token)
         /\ last.token.msg[1] = "Invalid character in number"
         /\ last.token.start = <<1, 1>>
    ELSE /\ ~IsTokError(last.token)
         /\ last.token.kind = INTEGER
         /\ last.token.value = IntV(Octal(doc))

\* ------------------------------------------------------------------------
\* Escapes: the first token of a quoted string that holds one escape, a
\* backslash, a letter and what follows it
\* ------------------------------------------------------------------------
MaxDigits == 4   \* characters after the letter of an escape and its padding
EscLetters == {"n", "z", "x", "u", "U"}
\* the first four of the eight digits of a U escape, or nothing
EscPads == {<<>>, <<"0", "0", "0", "1">>, <<"0", "0", "1", "1">>}
EscInputs == [c : EscLetters, pad : EscPads, t : Texts({"0", "d", "8", "z"}, MaxDigits)]
EscText(in) == <<"'", "\\", in.c>> \o in.pad \o in.t \o <<"'">>

InitEsc ==
  /\ doc \in {EscText(in) : in \in EscInputs}
  /\ cfg = NoCall
  /\ last = NoCall
  /\ firstRet = <<>>
  /\ nGets = 0

\* makeTokenizer(text).getToken()
GetString ==
  /\ last = NoCall
  /\ last' = [op |-> "getString", token |-> getToken(doc, 1)]
  /\ UNCHANGED <<doc, cfg, firstRet, nGets>>

NextEsc == GetString

SpecEsc == InitEsc /\ [][NextEsc]_vars

\* the value of a run of hexadecimal digits
RECURSIVE HexValue(_)
HexValue(p) == IF p = <<>> THEN 0 ELSE 16 * HexValue(SubSeq(p, 1, Len(p) - 1)) + DigitVal(p[Len(p)])
\* the escape of letter c, followed by the text p, is one the decoder has to
\* take: c is a single-character escape, or p starts with the number of
\* hexadecimal digits of c and they give a code point that is no surrogate
\* and at most 0x10FFFF
Digits(c) == IF c = "x" THEN 2 ELSE IF c = "u" THEN 4 ELSE 8
ValidEscape(c, p) ==
  \/ c \in DOMAIN ESCAPES
  \/ /\ c \in {"x", "u", "U"}
     /\ Len(p) >= Digits(c)
     /\ \A i \in 1..Digits(c) : is_hex_digit(p[i])
     /\ HexValue(SubSeq(p, 1, Digits(c))) \notin 55296..57343
     /\ HexValue(SubSeq(p, 1, Digits(c))) <= 1114111

\* C21: a string whose escape is no single-character escape and no x, u or U
\* with its 2, 4 or 8 hexadecimal digits, or whose code point is a surrogate
\* or beyond 0x10FFFF, fails with 'Invalid escape sequence'.
C21_InvalidEscapes ==
  last.op = "getString" =>
    \A in \in EscInputs :
      (EscText(in) = doc /\ ~ValidEscape(in.c, in.pad \o in.t)) =>
        /\ IsTokError(last.token)
        /\ last.token.msg = <<"Invalid escape sequence">>

\* ------------------------------------------------------------------------
\* Expressions: parse(text, rule) on the texts of one or two operators
\* between the operands foo, bar and baz, or 1, 2 and 3, with and without
\* blanks around the operators
\* ------------------------------------------------------------------------
Operators ==
  {<<"*">>, <<"/">>, <<"/", "/">>, <<"%">>, <<"+">>, <<"-">>, <<"<", "<">>, <<">", ">">>,
   <<"&">>, <<"^">>, <<"|">>, <<"a", "n", "d">>, <<"o", "r">>, <<"&", "&">>, <<"|", "|">>,
   <<"*", "*">>, <<"<">>, <<"<", "=">>, <<">">>, <<">", "=">>, <<"=", "=">>, <<"!", "=">>,
   <<"<", ">">>, <<"i", "n">>, <<"i", "s">>, <<"i", "s", " ", "n", "o", "t">>,
   <<"n", "o", "t", " ", "i", "n">>, <<"n", "o", "t">>, <<"!">>}
Words == <<<<"f", "o", "o">>, <<"b", "a", "r">>, <<"b", "a", "z">>>>
Integers == <<<<"1">>, <<"2">>, <<"3">>>>
\* op2 = <<>>: the text has one operator and two operands
OpInputs == [op1 : Operators, op2 : Operators \cup {<<>>}, operands : {Words, Integers},
             blank : {<<>>, <<" ">>}]
OpText(in) ==
  in.operands[1] \o in.blank \o in.op1 \o in.blank \o in.operands[2]
    \o (IF in.op2 = <<>> THEN <<>> ELSE in.blank \o in.op2 \o in.blank \o in.operands[3])
Rules == {"power", "comparison", "mulExpr", "addExpr", "shiftExpr", "bitandExpr", "bitxorExpr",
          "bitorExpr", "andExpr", "expr"}

\* parse(s, rule): the rule f of a new Parser on the text s
parse(s, f) ==
  TThen(advance(s, [nxt |-> 1]), LAMBDA first :
    CASE f = "power" -> power(s, first)
      [] f = "comparison" -> comparison(s, first)
      [] OTHER -> rule(f, <<s, first>>))

InitOps ==
  /\ doc \in {OpText(in) : in \in OpInputs}
  /\ cfg = NoCall
  /\ last = NoCall
  /\ firstRet = <<>>
  /\ nGets = 0

Parse(f) ==
  /\ last = NoCall
  /\ last' = [op |-> "parse", f |-> f, r |-> parse(doc, f)]
  /\ UNCHANGED <<doc, cfg, firstRet, nGets>>

NextOps == \E f \in Rules : Parse(f)

SpecOps == InitOps /\ [][NextOps]_vars

\* the kind of the token an operator's text makes, as makeTokenizer(op).getToken().kind
KindOf(op) == getToken(op, 1).kind
\* the kinds and the operand texts of an expression's nodes
RECURSIVE Shape(_)
Shape(n) ==
  CASE n.type = "Token" -> n.text
    [] n.type = "Binary" -> <<n.kind, Shape(n.left), Shape(n.right)>>
    [] n.type = "Unary" -> <<n.kind, Shape(n.operand)>>
    [] OTHER -> <<n.type>>
\* the operators of one precedence level that associate to the left, by rule
Levels ==
  [mulExpr |-> {<<"*">>, <<"/">>, <<"/", "/">>, <<"%">>},
   addExpr |-> {<<"+">>, <<"-">>},
   shiftExpr |-> {<<"<", "<">>, <<">", ">">>},
   bitandExpr |-> {<<"&">>},
   bitxorExpr |-> {<<"^">>},
   bitorExpr |-> {<<"|">>},
   andExpr |-> {<<"a", "n", "d">>},
   expr |-> {<<"o", "r">>}]
\* foo op1 bar op2 baz, with blanks around the operators or without
Chain(op1, op2, blank) == [op1 |-> op1, op2 |-> op2, operands |-> Words, blank |-> blank]
\* the blanks that keep an operator apart from the operands: a word needs them
Blanks(f) == IF f \in {"andExpr", "expr"} THEN {<<" ">>} ELSE {<<>>, <<" ">>}

\* C22: foo op1 bar op2 baz, with op1 and op2 of one of the levels
\* * / // %, + -, << >>, &, ^, |, and, or, parses to
\* BinaryNode(op2, BinaryNode(op1, foo, bar), baz); foo ** bar ** baz parses
\* to BinaryNode(**, foo, BinaryNode(**, bar, baz)).
C22_Associativity ==
  last.op = "parse" =>
    /\ \A f \in DOMAIN Levels : \A op1 \in Levels[f], op2 \in Levels[f], blank \in Blanks(f) :
         (last.f \in {f, "expr"} /\ doc = OpText(Chain(op1, op2, blank))) =>
           /\ last.r.ok
           /\ last.r.next.kind = EOF
           /\ Shape(last.r.node) = <<KindOf(op2), <<KindOf(op1), Words[1], Words[2]>>, Words[3]>>
    /\ \A blank \in Blanks("power") :
         (last.f \in {"power", "expr"} /\ doc = OpText(Chain(<<"*", "*">>, <<"*", "*">>, blank))) =>
            /\ last.r.ok
            /\ last.r.next.kind = EOF
            /\ Shape(last.r.node) = <<POWER, Words[1], <<POWER, Words[2], Words[3]>>>>

\* foo - bar + baz has been read by addExpr, and foo ** bar ** baz by power
C22_Witness ==
  /\ last.op = "parse"
  /\ \/ /\ last.f = "addExpr"
        /\ doc = OpText(Chain(<<"-">>, <<"+">>, <<" ">>))
        /\ last.r.ok
        /\ last.r.node.kind = PLUS
        /\ last.r.node.left.kind = MINUS
     \/ /\ last.f = "power"
        /\ doc = OpText(Chain(<<"*", "*">>, <<"*", "*">>, <<" ">>))
        /\ last.r.ok
        /\ last.r.node.right.kind = POWER

\* one operator between foo and bar, or between 1 and 2
Single(op, operands, blank) == [op1 |-> op, op2 |-> <<>>, operands |-> operands, blank |-> blank]
\* the kinds the nodes of the comparison rule are to have
ComparisonKinds == {LT, LE, GT, GE, EQ, NEQ, ALT_NEQ, IN_, IS, ISNOT, NOTIN}

\* C23: the BinaryNode the comparison rule builds for foo op bar, where op
\* starts with a token the rule takes for an operator, has a kind among
\* <, <=, >, >=, ==, !=, <>, in, is, is not, not in; for 'is not' the kind is
\* ISNOT and for 'not in' it is NOTIN, with foo and bar as the operands.
C23_ComparisonKinds ==
  (last.op = "parse" /\ last.f = "comparison") =>
    \A op \in Operators :
      (/\ KindOf(op) \in COMPARISON_OPERATORS
       /\ doc = OpText(Single(op, Words, <<" ">>))
       /\ last.r.ok
       /\ last.r.node.type = "Binary") =>
        /\ last.r.node.kind \in ComparisonKinds
        /\ op = <<"i", "s", " ", "n", "o", "t">> =>
             Shape(last.r.node) = <<ISNOT, Words[1], Words[2]>>
        /\ op = <<"n", "o", "t", " ", "i", "n">> =>
             Shape(last.r.node) = <<NOTIN, Words[1], Words[2]>>

\* the start of the first token of an expression of tokens and binary nodes
RECURSIVE FirstStart(_)
FirstStart(n) == IF n.type = "Binary" THEN FirstStart(n.left) ELSE n.start
\* every binary node of the expression has a start, that of its first token
RECURSIVE Located(_)
Located(n) ==
  n.type = "Binary" =>
    /\ "start" \in DOMAIN n
    /\ n.start = FirstStart(n)
    /\ Located(n.left)
    /\ Located(n.right)

\* C27: every node of an expression the parser returns has a start
\* location, the start location of the first token the node spans.
C27_StartOfFirstToken == (last.op = "parse" /\ last.r.ok) => Located(last.r.node)

\* C30: for the integer literals 1 and 2, addExpr reads 1-2 to its end and
\* returns the node it returns for 1 - 2, BinaryNode(MINUS, 1, 2).
C30_BlanksDoNotMatter ==
  (/\ last.op = "parse"
   /\ last.f = "addExpr"
   /\ doc = OpText(Single(<<"-">>, Integers, <<>>))) =>
     /\ last.r.ok
     /\ last.r.next.kind = EOF
     /\ Shape(last.r.node) = <<MINUS, Integers[1], Integers[2]>>
     /\ Shape(last.r.node) = Shape(parse(OpText(Single(<<"-">>, Integers, <<" ">>)), "addExpr").node)

\* ------------------------------------------------------------------------
\* Loading a text: a mapping, and what follows it in the text
\* ------------------------------------------------------------------------
Bodies ==
  {<<"a", ":", " ", "1">>,
   <<"a", ":", " ", "1", ",", " ", "b", ":", " ", "2">>,
   <<"a", ":", " ", "1", "\n", "b", ":", " ", "2">>,
   <<"a", ":", " ", "b", ".", "c">>,
   <<"a", ":", " ", "[", "1", "]">>}
\* nothing, newlines, tokens of several kinds, and the character ? that
\* starts no token
Rests ==
  {<<>>, <<"\n">>, <<" ", "]">>, <<" ", "}">>, <<"\n", "]">>, <<" ", "2">>, <<" ", ")">>,
   <<" ", "?">>, <<"\n", "?">>, <<" ", "]", " ", "?">>, <<" ", "]", " ", "b", ":", " ", "2">>}
LoadInputs == [braced : BOOLEAN, body : Bodies, rest : Rests]
LoadText(in) ==
  (IF in.braced THEN <<"{">> \o in.body \o <<"}">> ELSE in.body) \o in.rest

\* no token of the text from position i on is a lexical error
RECURSIVE Lexes(_, _)
Lexes(s, i) ==
  LET tok == getToken(s, i) IN
  ~IsTokError(tok) /\ (tok.kind = EOF \/ Lexes(s, tok.nxt))

InitText ==
  /\ doc \in {LoadText(in) : in \in LoadInputs}
  /\ \E cached \in BOOLEAN : cfg = NewConfig(cached)
  /\ last = NoCall
  /\ firstRet = <<>>
  /\ nGets = 0

\* Config.load on a stream of the text s: the result of load, and whether
\* its parser is at the end of the text when load returns
loadStream(s, c) ==
  PThen(Container(s), LAMBDA p : [atEnd |-> p.next.kind = EOF] @@ load(p.node, c))

\* cfg.load(makeStream(text))
LoadStream ==
  /\ last = NoCall
  /\ last' = [op |-> "load"] @@ loadStream(doc, cfg)
  /\ cfg' = IF "c" \in DOMAIN last' THEN last'.c ELSE cfg
  /\ UNCHANGED <<doc, firstRet, nGets>>

NextText == LoadStream

SpecText == InitText /\ [][NextText]_vars

\* C26: when load returns without an exception, the parser is at the end
\* of the text and no token of the text is a lexical error.
C26_WholeInputRead == (last.op = "load" /\ last.ok) => (last.atEnd /\ Lexes(doc, 1))

\* ------------------------------------------------------------------------
\* References that are met again in a later get
\* ------------------------------------------------------------------------
\* p: {q: ${x.z}}
\* x: 1
\* r: ${p.q}
DocRefs ==
  MappingNode(<<
    <<WKey(<<"p">>, 1, 1), MappingNode(<< <<WKey(<<"q">>, 1, 5), Ref(<<"x", ".", "z">>, 1, 8)>> >>)>>,
    <<WKey(<<"x">>, 2, 1), IVal(1, 2, 4)>>,
    <<WKey(<<"r">>, 3, 1), Ref(<<"p", ".", "q">>, 3, 4)>>
  >>)

InitRefs ==
  /\ doc = "refs"
  /\ \E cached \in BOOLEAN : cfg = load(DocRefs, NewConfig(cached)).c
  /\ last = NoCall
  /\ firstRet = <<>>
  /\ nGets = 0

\* the caller's cfg.get(k, dv), with what refsSeen holds when it starts
GetNext(k, dv) ==
  /\ nGets < MaxGets
  /\ last' = [refsSeen |-> cfg.refsSeen] @@ Outcome(k, dv)
  /\ firstRet' = Noted(last', k)
  /\ cfg' = After(k, dv)
  /\ nGets' = nGets + 1
  /\ doc' = doc

NextRefs == \E k \in Queries[doc], dv \in Defaults : GetNext(k, dv)

SpecRefs == InitRefs /\ [][NextRefs]_vars

\* C24: a get starts with refsSeen empty, whatever the key and however the
\* get before it ended, and a reference that an earlier get recorded makes
\* no later get fail with a CircularReferenceException: on this document,
\* where no reference leads back to itself, no get fails with one.
C24_RefsSeenEmptyAtGet ==
  last.op = "get" =>
    /\ last.refsSeen = {}
    /\ last.ex # "CircularReferenceException"

\* ------------------------------------------------------------------------
\* Backtick strings with ${...} parts
\* ------------------------------------------------------------------------
\* x: 1
\* g: `${x}-${x}`
\* b: `${z}!`
\* n: `<<<<${x}`
\* o: `${n}`
DocInterp ==
  MappingNode(<<
    <<WKey(<<"x">>, 1, 1), IVal(1, 1, 4)>>,
    <<WKey(<<"g">>, 2, 1), BVal(<<"$", "{", "x", "}", "-", "$", "{", "x", "}">>, 2, 4)>>,
    <<WKey(<<"b">>, 3, 1), BVal(<<"$", "{", "z", "}", "!">>, 3, 4)>>,
    <<WKey(<<"n">>, 4, 1), BVal(<<"<", "<", "<", "<", "$", "{", "x", "}">>, 4, 4)>>,
    <<WKey(<<"o">>, 5, 1), BVal(<<"$", "{", "n", "}">>, 5, 4)>>
  >>)

\* the Config just after new Config(options) and load
Loaded(cached, strict) ==
  load(DocInterp, Constructor([defaults EXCEPT !.cached = cached,
                                               !.strictConversions = strict])).c

InitInterp ==
  /\ doc = "interp"
  /\ \E cached \in BOOLEAN, strict \in BOOLEAN : cfg = Loaded(cached, strict)
  /\ last = NoCall
  /\ firstRet = <<>>
  /\ nGets = 0

NextInterp == \E k \in Queries[doc] : Get(k, MISSING)

SpecInterp == InitInterp /\ [][NextInterp]_vars

\* C25: after a get, failed or not, the root mapping with its nodes is what
\* load stored, and the match position of the interpolation pattern is
\* where it was before the get, at 0.
C25_GetChangesCacheOnly ==
  last.op = "get" =>
    /\ cfg.data = Loaded(cfg.cache.on, cfg.strictConversions).data
    /\ cfg.lastIndex = 0

\* what each ${...} part replaced once by the text of its value gives
Rendered ==
  [g |-> <<"1", "-", "1">>, n |-> <<"<", "<", "<", "<", "1">>, o |-> <<"<", "<", "<", "<", "1">>]

\* C28: the conversion of a backtick string with ${...} parts returns, with
\* each part replaced once by the text of its value, also when the value is
\* such a string itself and when an interpolation before it has failed.
C28_Interpolation ==
  last.op = "get" =>
    \A key \in DOMAIN Rendered :
      last.k = <<key>> => last.ok /\ last.ret = Str(Rendered[key])

\* ------------------------------------------------------------------------
\* The locations of the tokenizer, on texts of words, blanks and the
\* characters of newlines.  A Tokenizer is its place in the stream, the
\* characters pushed back and the two locations, each <<line, column>>.
\* ------------------------------------------------------------------------
MaxChars == 5   \* characters of a text
LineChars == {"a", " ", "\n", "\r"}

\* new Tokenizer(stream)
Tokenizer ==
  [pos |-> 1, pushed_back |-> <<>>, char_location |-> <<1, 1>>, location |-> <<1, 1>>]

\* Location.next_line
next_line(loc) == <<loc[1] + 1, 1>>

\* Tokenizer.getChar: the character and the Tokenizer after it
getChar(s, tz) ==
  IF Len(tz.pushed_back) > 0
  THEN [c |-> tz.pushed_back[Len(tz.pushed_back)].c,
        tz |-> [tz EXCEPT !.pushed_back = SubSeq(@, 1, Len(@) - 1),
                          !.char_location = tz.pushed_back[Len(tz.pushed_back)].cloc,
                          !.location = tz.pushed_back[Len(tz.pushed_back)].loc]]
  ELSE [c |-> CharAt(s, tz.pos),
        tz |-> [tz EXCEPT !.pos = IF CharAt(s, tz.pos) = NoChar THEN @ ELSE @ + 1,
                          !.char_location = tz.location,
                          !.location = IF CharAt(s, tz.pos) = "\n" THEN next_line(@)
                                       ELSE <<@[1], @[2] + 1>>]]

\* Tokenizer.pushBack
pushBack(c, tz) ==
  IF c = NoChar THEN tz
  ELSE [tz EXCEPT !.pushed_back =
                    Append(@, [c |-> c, cloc |-> tz.char_location, loc |-> tz.location])]

\* the token of kind and text that starts at start, and the Tokenizer after it
TokenAt(kind, text, start, tz) == [kind |-> kind, text |-> text, start |-> start, tz |-> tz]

\* getToken, the branch of '\r'; g is the character read after it
carriageReturn(g, start) ==
  TokenAt(NEWLINE, <<>>, start,
          [(IF g.c # "\n" THEN pushBack(g.c, g.tz) ELSE g.tz) EXCEPT !.location = next_line(@)])

\* getToken, the loop of the branch of a word; g is the character read last
RECURSIVE wordLoop(_, _, _, _)
wordLoop(s, g, text, start) ==
  IF g.c # NoChar /\ (is_letter_or_digit(g.c) \/ g.c = "_")
  THEN wordLoop(s, getChar(s, g.tz), Append(text, g.c), start)
  ELSE TokenAt(WORD, text, start, pushBack(g.c, g.tz))

\* Tokenizer.getToken, from the character g it reads first
RECURSIVE tokenFrom(_, _)
tokenFrom(s, g) ==
  IF g.c = NoChar THEN TokenAt(EOF, <<>>, g.tz.char_location, g.tz)
  ELSE IF g.c = "\n" THEN TokenAt(NEWLINE, <<g.c>>, g.tz.char_location, g.tz)
  ELSE IF g.c = "\r" THEN carriageReturn(getChar(s, g.tz), g.tz.char_location)
  ELSE IF is_whitespace(g.c) THEN tokenFrom(s, getChar(s, g.tz))
  ELSE IF is_letter(g.c) \/ g.c = "_"
  THEN wordLoop(s, getChar(s, g.tz), <<g.c>>, g.tz.char_location)
  ELSE [kind |-> "TokenizerException", msg |-> <<"Unexpected character", g.c>>,
        start |-> g.tz.char_location, tz |-> g.tz]

InitLines ==
  /\ doc \in Texts(LineChars, MaxChars)
  /\ cfg = Tokenizer
  /\ last = NoCall
  /\ firstRet = <<>>
  /\ nGets = 0

\* tokenizer.getToken(), until the token of the end; nGets counts the words
NextToken ==
  /\ IF last = NoCall THEN TRUE ELSE last.kind # EOF
  /\ last' = [op |-> "getToken"] @@ tokenFrom(doc, getChar(doc, cfg))
  /\ cfg' = last'.tz
  /\ nGets' = IF last'.kind = WORD THEN nGets + 1 ELSE nGets
  /\ UNCHANGED <<doc, firstRet>>

NextLines == NextToken

SpecLines == InitLines /\ [][NextLines]_vars

\* a newline sequence ends at the place j of s: a '\n', which may close a
\* '\r\n', or a '\r' with no '\n' after it
EndsLine(s, j) == s[j] = "\n" \/ (s[j] = "\r" /\ CharAt(s, j + 1) # "\n")
\* the physical line of the character at the place i of s
LineAt(s, i) == 1 + Cardinality({j \in 1..(i - 1) : EndsLine(s, j)})
\* the places of s where a word starts
WordStarts(s) == {i \in 1..Len(s) : s[i] = "a" /\ CharAt(s, i - 1) # "a"}
\* the place where the n-th word of s starts
WordStart(s, n) == CHOOSE i \in WordStarts(s) : Cardinality({j \in WordStarts(s) : j <= i}) = n

\* C29: the word that begins on the k-th physical line of the text, where
\* '\n', '\r\n' and a lone '\r' each end one line, is returned with
\* start.line = k.
C29_LineNumbers ==
  (last.op = "getToken" /\ last.kind = WORD) => last.start[1] = LineAt(doc, WordStart(doc, nGets))


====
